---- MODULE Spec2Model ----
(***************************************************************************)
(* The multi-broker target cache of tcfl/ttb_client.py: the registry       *)
(* rest_target_brokers, the class attribute rest_target_broker._rts_cache, *)
(* the property rts_cache that fills it with one list call per broker, and *)
(* rts_cache_flush.                                                        *)
(*                                                                         *)
(* Strings are sequences of characters, so that aka + "/" + id is a real   *)
(* concatenation and hostname.split('.')[0] a real scan.  A Python dict is *)
(* a function with a finite domain.  Caller threads are the threads that   *)
(* evaluate rts_cache, rts_cache_flush and rest_init; the pool threads of  *)
(* one fan-out are the tasks of that caller.                               *)
(***************************************************************************)
EXTENDS Integers, Sequences, FiniteSets, TLC

\* ------------------------------------------------------------- bounds
NUrls == 2
NAkas == 1
NIds == 1
NThreads == 2
NCookies == 2

\* ------------------------------------------------------------- inputs
\* Broker URLs, reduced to what the code reads of them: the hostname, and
\* the text that follows it (a port, a path).
UrlList ==
    << [hostname |-> <<"a", ".", "x">>, path |-> << >>],
       [hostname |-> <<"b", ".", "x">>, path |-> << >>],
       [hostname |-> <<"a", ".", "y">>, path |-> << >>],
       [hostname |-> <<"c">>, path |-> << >>] >>

Urls == { UrlList[i] : i \in 1..NUrls }

AkaList == << <<"a">>, <<"b">>, <<"c">>, <<"d">> >>

Akas == { AkaList[i] : i \in 1..NAkas }

\* Target ids; an id is any string the broker chose, a '/' included.
IdList == << <<"t1">>, <<"a", "/", "t1">>, <<"t2">>, <<"b", "/", "t1">> >>

Ids == { IdList[i] : i \in 1..NIds }

\* Cookie names and values.
CookieNameList == << "session", "remember_token", "c3", "c4" >>

CookieNames == { CookieNameList[i] : i \in 1..NCookies }

\* A cookie's value: the one a session got first, and a newer one.
CookieValues == { "v1", "v2" }

ThreadList == << "T1", "T2", "T3", "T4" >>

Threads == { ThreadList[i] : i \in 1..NThreads }

\* The caller of the single-threaded command line.
MainThread == ThreadList[1]

\* The optional argument aka of rest_init: None, or a string.
NoAka == [given |-> FALSE, value |-> <<>>]

SomeAka(a) == [given |-> TRUE, value |-> a]

AkaArgs == {NoAka} \cup { SomeAka(a) : a \in Akas }

\* ------------------------------------------------------------- state
VARIABLES
    rest_target_brokers,  \* dict url -> rtb (the registered sessions)
    cache_attr,           \* "None", "dict" or "deleted": what _rts_cache holds
    _rts_cache,           \* the dict _rts_cache holds when cache_attr = "dict"
    pc,                   \* each caller thread's position
    threads,              \* each caller's local dict threads: rtb url -> task
    merged,               \* the tasks of threads a caller's merge loop has done
    flushed,              \* history: a flush dropped entries no access replaced yet
    stale,                \* history: who flushed since a list call of the access returned
    cache_stale,          \* history: the stale sets of the rounds merged in the cache
    cookies,              \* each session's self.cookies: dict name -> value
    valid_session,        \* each session's self.valid_session: None, True or False
    lock,                 \* each session's self.lock: its holder, or free
    call,                 \* each caller's call of a session method in progress
    find,                 \* each caller's lookup _rest_target_find_by_id
    handled,              \* history: each session's response cookies, merged by name
    state_file,           \* the state directory: file name -> the file
    run                   \* history: the last call of a function and its result

vars == << rest_target_brokers, cache_attr, _rts_cache, pc, threads, merged,
           flushed, stale, cache_stale, cookies, valid_session, lock, call, find,
           handled, state_file, run >>

\* The state of the sessions and of the commands that use them.
sess == << cookies, valid_session, lock, call, find, handled >>

hist == << flushed, stale, cache_stale >>

\* The state directory and the history of the calls.
store == << state_file, run >>

\* The empty dict {}.
EmptyDict == << >>

\* d1.update(d2)
dict_update(d1, d2) ==
    [k \in (DOMAIN d1) \cup (DOMAIN d2) |-> IF k \in DOMAIN d2 THEN d2[k] ELSE d1[k]]

\* ------------------------------------------------------------- sessions
\* str.split('.')[0]: the characters before the first '.'.
RECURSIVE split_first(_)
split_first(s) ==
    IF s = << >> \/ Head(s) = "."
    THEN << >>
    ELSE << Head(s) >> \o split_first(Tail(s))

\* rest_target_broker.__init__, the part that names the session.
rest_target_broker_init(url, aka) ==
    [url |-> url,
     aka |-> IF aka.given THEN aka.value ELSE split_first(url.hostname)]

\* ------------------------------------------------------------- requests
\* What one GET targets/ can meet: a JSON body with a 'targets' list (the
\* ids of the targets the broker holds at that moment), or a failure.
FailureKinds ==
    { "ConnectionError",   \* connect refused, TLS failure: session.get raises
      "Timeout",           \* the timeout of send_request expires
      "HTTPError",         \* an error status: request_response_maybe_raise
      "NotJSON",           \* a 2xx body that r.json() cannot decode
      "NoTargets" }        \* a JSON body without 'targets' (or an 'id'): KeyError

\* The ids of a response, in the order of IdList.
ids_list(S) == SelectSeq(SubSeq(IdList, 1, NIds), LAMBDA i : i \in S)

Responses ==
    { [kind |-> "targets", ids |-> ids_list(S)] : S \in SUBSET Ids }
      \cup { [kind |-> k, ids |-> << >>] : k \in FailureKinds }

\* An except clause that names only requests.exceptions.ConnectionError.
IsConnectionError(exc) == exc = "ConnectionError"

\* requests.exceptions: the classes derived from RequestException.
IsRequestException(exc) == exc \in { "ConnectionError", "Timeout", "HTTPError" }

\* send_request: the exception it leaves with, "none" when it returns rdata.
send_request(resp) ==
    CASE resp.kind \in { "ConnectionError", "Timeout" } -> resp.kind
      [] resp.kind = "HTTPError" -> "HTTPError"
      [] resp.kind = "NotJSON" -> "ValueError"
      [] OTHER -> "none"

\* rest_tb_target_list(all_targets = True): the list _targets, each rt with
\* its fullid and its rtb, or the exception.
rest_tb_target_list(rtb, resp) ==
    LET exc == send_request(resp) IN
    IF exc # "none" THEN [exc |-> exc, value |-> << >>]
    ELSE IF resp.kind = "NoTargets" THEN [exc |-> "KeyError", value |-> << >>]
    ELSE [exc |-> "none",
          value |-> [n \in DOMAIN resp.ids |->
                        [id |-> resp.ids[n],
                         fullid |-> rtb.aka \o <<"/">> \o resp.ids[n],
                         rtb |-> rtb,
                         symbols |-> {}]]]

\* A dict of the rts of the list that is keyed by rt['id'].
_rt_list_to_dict_by_id(rt_list) ==
    [k \in { rt_list[n].id : n \in DOMAIN rt_list } |->
        LET n == CHOOSE n \in DOMAIN rt_list : rt_list[n].id = k
        IN [rt_list[n] EXCEPT !.symbols = { rt_list[n].fullid, rt_list[n].id }]]

\* _rt_list_to_dict: rts[rt_fullid] = rt for each rt of the list in turn,
\* after adding the two symbols rt[rt_fullid] and rt[rt['id']].
RECURSIVE _rt_list_to_dict(_)
_rt_list_to_dict(rt_list) ==
    IF rt_list = << >> THEN EmptyDict
    ELSE LET n == Len(rt_list)
             rt == [rt_list[n] EXCEPT !.symbols = { rt_list[n].fullid, rt_list[n].id }]
         IN dict_update(_rt_list_to_dict(SubSeq(rt_list, 1, n - 1)),
                        [k \in { rt.fullid } |-> rt])

\* _rts_get: what the pool task of one broker ends with.
_rts_get(rtb, resp) ==
    LET r == rest_tb_target_list(rtb, resp) IN
    IF r.exc = "none" THEN [exc |-> "none", value |-> _rt_list_to_dict(r.value)]
    ELSE IF IsRequestException(r.exc) THEN [exc |-> "none", value |-> EmptyDict]
    ELSE [exc |-> r.exc, value |-> EmptyDict]

\* The error taxonomy of a list call, by what the call met: Unreachable
\* (connection, TLS), a timeout and RemoteError (an error status) are a
\* failed request; a 2xx answer without the expected body is malformed.
resp_class(resp) ==
    CASE resp.kind = "targets" -> "targets"
      [] resp.kind \in { "ConnectionError", "Timeout", "HTTPError" } -> "failed"
      [] OTHER -> "malformed"

\* ------------------------------------------------------------- responses
\* A cookie set: r.cookies of a response, or self.cookies of a session.
CookieSets == UNION { [S -> CookieValues] : S \in SUBSET CookieNames }

\* r.cookies.iteritems(): the (name, value) pairs of a cookie set.
cookie_items(c) ==
    LET names == SelectSeq(SubSeq(CookieNameList, 1, NCookies),
                           LAMBDA n : n \in DOMAIN c)
    IN [i \in DOMAIN names |-> << names[i], c[names[i]] >>]

\* What a request of a session method can meet: no response at all, or a
\* response with a status, a body and cookies.  The body of a 2xx response
\* is JSON that says "You have a valid session", other JSON, or not JSON.
Statuses == { 200, 404, 500 }

NoResponse == [kind |-> "none", status |-> 0, body |-> "none"]

HttpResponses ==
    { [kind |-> k, status |-> 0, body |-> "none", cookies |-> EmptyDict] :
          k \in { "ConnectionError", "Timeout" } }
      \cup { [kind |-> "response", status |-> 200, body |-> b, cookies |-> c] :
                b \in { "valid", "json", "notjson" }, c \in CookieSets }
      \cup { [kind |-> "response", status |-> st, body |-> "json", cookies |-> c] :
                st \in Statuses \ { 200 }, c \in CookieSets }

\* What send_request makes of a response: request_response_maybe_raise
\* raises HTTPError on a status that is not ok, then r.json() decodes.
http_kind(r) ==
    CASE r.kind # "response" -> r.kind
      [] r.status >= 400 -> "HTTPError"
      [] r.body = "notjson" -> "NotJSON"
      [] OTHER -> "json"

\* ------------------------------------------------------------- tasks
\* One entry of the local dict threads: the AsyncResult of a broker's task.
\* resp and calls are history: the response the task met and the number of
\* list calls it issued.
PendingTask(rtb) ==
    [rtb |-> rtb, done |-> FALSE, exc |-> "none", value |-> EmptyDict,
     resp |-> "none", calls |-> 0]

NoThreads == << >>

\* A caller that is in no call of a session method.
NoCall ==
    [op |-> "none", url |-> [hostname |-> << >>, path |-> << >>], stage |-> "idle",
     validate |-> FALSE, rt |-> << >>, resp |-> NoResponse, r_cookies |-> << >>,
     n |-> 0, requests |-> 0, outcome |-> "none"]

\* A caller that is in no lookup.
NoFind == [stage |-> "none", target |-> << >>, rt |-> << >>, caller |-> "none"]

\* ------------------------------------------------------------- state files
\* string.whitespace and the extra_chars ":/" of file_name_make_safe.
UnsafeChars == { ":", "/", " ", "\t", "\n", "\r", "\f" }

\* file_name_make_safe: the file name without the characters of UnsafeChars.
file_name_make_safe(file_name) ==
    SelectSeq(file_name, LAMBDA c : c \notin UnsafeChars)

\* "/cookies-%s.pickle" % url_safe, the name of a session's state file;
\* url_safe is made of the whole URL.
state_file_name(url) ==
    << "cookies-" >> \o file_name_make_safe(url.hostname \o url.path) \o << ".pickle" >>

StateFileNames == { state_file_name(u) : u \in Urls }

\* A name of the state directory with no file.
NoFile == [kind |-> "absent", bytes |-> << >>]

\* A file of another user: open() fails with EACCES, to read and to write.
DeniedFile == [kind |-> "denied", bytes |-> << >>]

\* cPickle.dump(cookies, f, protocol = 2): the opcode that opens a dict,
\* each name and value, and the opcode STOP.
pickle_dump(c) ==
    LET items == cookie_items(c) IN
    << "{" >>
      \o [i \in 1..(2 * Len(items)) |->
              IF i % 2 = 1 THEN items[(i + 1) \div 2][1] ELSE items[i \div 2][2]]
      \o << "." >>

\* cPickle.load after the opcode that opens a dict: names and values up to
\* STOP; what follows STOP is not read, and EOFError when the file ends.
RECURSIVE pickle_load_items(_, _)
pickle_load_items(bytes, c) ==
    IF bytes = << >> THEN [exc |-> "EOFError", value |-> EmptyDict]
    ELSE IF Head(bytes) = "." THEN [exc |-> "none", value |-> c]
    ELSE IF Len(bytes) < 2 THEN [exc |-> "EOFError", value |-> EmptyDict]
    ELSE pickle_load_items(SubSeq(bytes, 3, Len(bytes)),
                           dict_update(c, [n \in { bytes[1] } |-> bytes[2]]))

\* cPickle.load(f): the dict, EOFError on a file that ends before STOP, and
\* UnpicklingError on a file that starts with no opcode.
pickle_load(bytes) ==
    IF bytes = << >> THEN [exc |-> "EOFError", value |-> EmptyDict]
    ELSE IF Head(bytes) # "{" THEN [exc |-> "UnpicklingError", value |-> EmptyDict]
    ELSE pickle_load_items(Tail(bytes), EmptyDict)

\* A write to a file that is opened with O_APPEND.
file_write_append(bytes, data) == bytes \o data

\* os.open(fname, os.O_CREAT | os.O_WRONLY) and the write of data: from the
\* start of the file, over what it held; without O_TRUNC what the file held
\* beyond the data stays.
file_write(bytes, data) == data \o SubSeq(bytes, Len(data) + 1, Len(bytes))

\* __init__, lines 160-173: the cookies loaded from the state file f, the
\* file as it is left and the exception the constructor leaves with.
\* UnpicklingError removes the file; IOError is swallowed only when its
\* errno is ENOENT; no other exception is caught.
tb_state_load(f) ==
    IF f.kind = "absent" THEN [exc |-> "none", cookies |-> EmptyDict, file |-> f]
    ELSE IF f.kind = "denied" THEN [exc |-> "IOError", cookies |-> EmptyDict, file |-> f]
    ELSE LET l == pickle_load(f.bytes) IN
         CASE l.exc = "none" -> [exc |-> "none", cookies |-> l.value, file |-> f]
           [] l.exc = "UnpicklingError" ->
                 [exc |-> "none", cookies |-> EmptyDict, file |-> NoFile]
           [] OTHER -> [exc |-> l.exc, cookies |-> EmptyDict, file |-> f]

\* No call was made yet.
NoRun == [op |-> "none"]

\* The sessions as __init__ leaves them, with no state file to load:
\* self.cookies = {}, self.valid_session = None, a new self.lock.
InitSessions ==
    /\ cookies = [u \in Urls |-> EmptyDict]
    /\ valid_session = [u \in Urls |-> "None"]
    /\ lock = [u \in Urls |-> "free"]
    /\ call = [t \in Threads |-> NoCall]
    /\ find = [t \in Threads |-> NoFind]
    /\ handled = [u \in Urls |-> EmptyDict]
    /\ state_file = [n \in StateFileNames |-> NoFile]
    /\ run = NoRun

Init ==
    /\ rest_target_brokers = EmptyDict
    /\ cache_attr = "None"
    /\ _rts_cache = EmptyDict
    /\ pc = [t \in Threads |-> "idle"]
    /\ threads = [t \in Threads |-> NoThreads]
    /\ merged = [t \in Threads |-> {}]
    /\ flushed = FALSE
    /\ stale = [t \in Threads |-> {}]
    /\ cache_stale = {}
    /\ InitSessions

\* ------------------------------------------------------------- operations
\* rest_init: rest_target_brokers[url] = rtb, a new session, which loads
\* its cookies from its state file; when the constructor raises, nothing
\* is registered.
rest_init(t, url, aka) ==
    /\ pc[t] = "idle"
    /\ LET name == state_file_name(url)
           ld == tb_state_load(state_file[name])
       IN IF ld.exc # "none"
          THEN /\ run' = [op |-> "rest_init", url |-> url, outcome |-> ld.exc]
               /\ UNCHANGED << rest_target_brokers, cookies, valid_session, lock,
                               handled, state_file >>
          ELSE /\ rest_target_brokers' =
                     dict_update(rest_target_brokers,
                                 [u \in { url } |-> rest_target_broker_init(url, aka)])
               /\ cookies' = [cookies EXCEPT ![url] = ld.cookies]
               /\ valid_session' = [valid_session EXCEPT ![url] = "None"]
               /\ lock' = [lock EXCEPT ![url] = "free"]
               /\ handled' = [handled EXCEPT ![url] = ld.cookies]
               /\ state_file' = [state_file EXCEPT ![name] = ld.file]
               /\ UNCHANGED run
    /\ UNCHANGED << cache_attr, _rts_cache, pc, threads, merged, hist, call, find >>

\* The test "if cls._rts_cache:", which takes an empty dict for no cache.
cache_is_truthy(attr, value) == attr # "None" /\ value # EmptyDict

\* cls._rts_cache != None
cache_is_valid(attr, value) == attr # "None"

\* rts_cache, lines 207-222: the test of the cache, and on a miss either the
\* empty cache of an empty registry or the fan-out of one task per broker.
rts_cache_enter(t) ==
    /\ pc[t] = "idle"
    /\ IF cache_attr = "deleted"
       THEN \* the attribute does not exist: AttributeError
            /\ UNCHANGED << cache_attr, _rts_cache, pc, threads, merged, hist >>
       ELSE IF cache_is_valid(cache_attr, _rts_cache)
       THEN /\ pc' = [pc EXCEPT ![t] = "return_hit"]
            /\ UNCHANGED << cache_attr, _rts_cache, threads, merged, hist >>
       ELSE IF DOMAIN rest_target_brokers = {}
       THEN /\ cache_attr' = "dict"
            /\ _rts_cache' = EmptyDict
            /\ pc' = [pc EXCEPT ![t] = "return_empty"]
            /\ cache_stale' = {}
            /\ UNCHANGED << threads, merged, flushed, stale >>
       ELSE /\ threads' = [threads EXCEPT ![t] =
                             [u \in DOMAIN rest_target_brokers |->
                                 PendingTask(rest_target_brokers[u])]]
            /\ merged' = [merged EXCEPT ![t] = {}]
            /\ pc' = [pc EXCEPT ![t] = "fanout"]
            /\ stale' = [stale EXCEPT ![t] = {}]
            /\ UNCHANGED << cache_attr, _rts_cache, flushed, cache_stale >>
    /\ UNCHANGED rest_target_brokers
    /\ UNCHANGED << sess, store >>

\* One pool task: cls._rts_get(rtb), with the response its list call meets.
rts_cache_task(t, u, resp) ==
    /\ pc[t] = "fanout"
    /\ u \in DOMAIN threads[t]
    /\ ~threads[t][u].done
    /\ LET r == _rts_get(threads[t][u].rtb, resp) IN
       threads' = [threads EXCEPT ![t][u] =
                      [@ EXCEPT !.done = TRUE, !.exc = r.exc, !.value = r.value,
                                !.resp = resp_class(resp), !.calls = @ + 1]]
    /\ UNCHANGED << rest_target_brokers, cache_attr, _rts_cache, pc, merged, hist >>
    /\ UNCHANGED << sess, store >>

\* tp.join() returns once every task has ended; then cls._rts_cache = {}.
rts_cache_join(t) ==
    /\ pc[t] = "fanout"
    /\ \A u \in DOMAIN threads[t] : threads[t][u].done
    /\ cache_attr' = "dict"
    /\ _rts_cache' = EmptyDict
    /\ pc' = [pc EXCEPT ![t] = "merge"]
    /\ cache_stale' = stale[t]
    /\ UNCHANGED << rest_target_brokers, threads, merged, flushed, stale >>
    /\ UNCHANGED << sess, store >>

\* One round of the merge loop: cls._rts_cache.update(thread.get()), the
\* tasks taken in the order of threads.values(), which is any order.
rts_cache_merge(t, u) ==
    /\ pc[t] = "merge"
    /\ u \in (DOMAIN threads[t]) \ merged[t]
    /\ IF threads[t][u].exc # "none" \/ cache_attr # "dict"
       THEN \* thread.get() raises what the task raised; or the attribute
            \* is None, which has no update(), or deleted: AttributeError
            /\ pc' = [pc EXCEPT ![t] = "idle"]
            /\ threads' = [threads EXCEPT ![t] = NoThreads]
            /\ merged' = [merged EXCEPT ![t] = {}]
            /\ flushed' = FALSE
            /\ stale' = [stale EXCEPT ![t] = {}]
            /\ UNCHANGED << _rts_cache, cache_stale >>
       ELSE /\ _rts_cache' = dict_update(_rts_cache, threads[t][u].value)
            /\ merged' = [merged EXCEPT ![t] = @ \cup { u }]
            /\ pc' = [pc EXCEPT ![t] =
                         IF merged'[t] = DOMAIN threads[t] THEN "return" ELSE "merge"]
            /\ cache_stale' = cache_stale \cup stale[t]
            /\ UNCHANGED << threads, flushed, stale >>
    /\ UNCHANGED << rest_target_brokers, cache_attr >>
    /\ UNCHANGED << sess, store >>

\* return cls._rts_cache (lines 208, 211 and 228): the attribute is read
\* again, and the caller gets what it holds then (AttributeError when it
\* is deleted).
rts_cache_return(t) ==
    /\ pc[t] \in { "return_hit", "return_empty", "return" }
    /\ pc' = [pc EXCEPT ![t] = "idle"]
    /\ threads' = [threads EXCEPT ![t] = NoThreads]
    /\ merged' = [merged EXCEPT ![t] = {}]
    /\ flushed' = FALSE
    /\ stale' = [stale EXCEPT ![t] = {}]
    /\ UNCHANGED << rest_target_brokers, cache_attr, _rts_cache, cache_stale >>
    /\ UNCHANGED << sess, store >>

\* rts_cache_flush, line 232: del cls._rts_cache.  (On an attribute that is
\* already deleted the del raises AttributeError and changes nothing.)
rts_cache_flush_del(t) ==
    /\ pc[t] = "idle"
    /\ cache_attr # "deleted"
    /\ cache_attr' = "deleted"
    /\ _rts_cache' = EmptyDict
    /\ pc' = [pc EXCEPT ![t] = "flush_set"]
    /\ stale' = [o \in Threads |->
                    IF pc[o] \in { "fanout", "merge" }
                          /\ \E u \in DOMAIN threads[o] : threads[o][u].done
                    THEN stale[o] \cup { t }
                    ELSE stale[o]]
    /\ cache_stale' = {}
    /\ flushed' = (flushed \/ DOMAIN _rts_cache # {})
    /\ UNCHANGED << rest_target_brokers, threads, merged >>
    /\ UNCHANGED << sess, store >>

\* A flush that resets the attribute to an empty dict instead of None.
rts_cache_flush_set_dict(t) ==
    /\ pc[t] = "flush_set"
    /\ cache_attr' = "dict"
    /\ _rts_cache' = EmptyDict
    /\ pc' = [pc EXCEPT ![t] = "idle"]
    /\ UNCHANGED << rest_target_brokers, threads, merged, hist >>
    /\ UNCHANGED << sess, store >>

\* rts_cache_flush, line 233: cls._rts_cache = None.
rts_cache_flush_set(t) ==
    /\ pc[t] = "flush_set"
    /\ cache_attr' = "None"
    /\ _rts_cache' = EmptyDict
    /\ pc' = [pc EXCEPT ![t] = "idle"]
    /\ UNCHANGED << rest_target_brokers, threads, merged, hist >>
    /\ UNCHANGED << sess, store >>

\* ------------------------------------------------------------- lookups
\* A caller that is between two commands.
Quiet(t) ==
    /\ pc[t] = "idle"
    /\ call[t].stage \in { "idle", "done" }
    /\ find[t].stage # "scan"

\* A get that finds no key.
dict_get_none(c, k) == << >>

\* dict.get(k, None): << c[k] >>, or << >> for None.
dict_get(c, k) == IF k \in DOMAIN c THEN << c[k] >> ELSE << >>

\* _rest_target_find_by_id, lines 609-611: the exact match on the cache key.
\* (The access rts_cache of line 609 finds the cache valid and returns it;
\* on an invalid cache it is first the refresh of rts_cache_enter.)
_rest_target_find_by_id(t, target, caller) ==
    /\ Quiet(t)
    /\ cache_attr = "dict"
    /\ LET rt == dict_get(_rts_cache, target) IN
       find' = [find EXCEPT ![t] =
                   [stage |-> IF rt # << >> THEN "found" ELSE "scan",
                    target |-> target, rt |-> rt, caller |-> caller]]
    /\ call' = [call EXCEPT ![t] = NoCall]
    /\ UNCHANGED << rest_target_brokers, cache_attr, _rts_cache, pc, threads,
                    merged, hist, store, cookies, valid_session, lock, handled >>

\* _rest_target_find_by_id, lines 613-616: the scan of rts_cache.itervalues(),
\* in the order of the dict, which is any order; the first rt whose id is
\* the target is returned, and IndexError is raised when there is none.
_rest_target_find_by_id_scan(t) ==
    /\ find[t].stage = "scan"
    /\ cache_attr = "dict"
    /\ LET matches == { k \in DOMAIN _rts_cache : _rts_cache[k].id = find[t].target } IN
       IF matches = {}
       THEN find' = [find EXCEPT ![t].stage = "IndexError"]
       ELSE \E k \in matches :
               find' = [find EXCEPT ![t].stage = "found", ![t].rt = << _rts_cache[k] >>]
    /\ UNCHANGED << rest_target_brokers, cache_attr, _rts_cache, pc, threads,
                    merged, hist, store, cookies, valid_session, lock, call, handled >>

\* ------------------------------------------------------------- session calls
\* send_request, lines 298-323: self.cookies is read under the lock and the
\* request is sent; r is the response, or the failure to get one.
send_request_begin(op, u, r) ==
    [op |-> op, url |-> u,
     stage |-> IF r.kind = "response" THEN "cookies" ELSE "end",
     validate |-> FALSE, rt |-> << >>,
     resp |-> [kind |-> r.kind, status |-> r.status, body |-> r.body],
     r_cookies |-> cookie_items(r.cookies), n |-> 0, requests |-> 1,
     outcome |-> "none"]

\* A call that ends without a request.
no_request(op, u, outcome) ==
    [NoCall EXCEPT !.op = op, !.url = u, !.stage = "done", !.outcome = outcome]

\* self.cookies = { cookie: value }, which drops the other cookies.
cookie_set_only(c, cookie, value) == [n \in { cookie } |-> value]

\* self.cookies[cookie] = value
cookie_set(c, cookie, value) == dict_update(c, [n \in { cookie } |-> value])

\* send_request, lines 326-327: a response with cookies takes the lock.
send_request_update(t) ==
    /\ call[t].stage = "cookies"
    /\ IF DOMAIN call[t].r_cookies = {}
       THEN /\ call' = [call EXCEPT ![t].stage = "end"]
            /\ UNCHANGED lock
       ELSE /\ lock[call[t].url] = "free"
            /\ lock' = [lock EXCEPT ![call[t].url] = t]
            /\ call' = [call EXCEPT ![t].stage = "merge"]
    /\ UNCHANGED << rest_target_brokers, cache_attr, _rts_cache, pc, threads,
                    merged, hist, store, cookies, valid_session, find, handled >>

\* send_request, lines 334-335: one round of the loop over r.cookies, n
\* counting the rounds done; the lock is released after the last.
send_request_merge(t) ==
    /\ call[t].stage = "merge"
    /\ LET u == call[t].url
           item == call[t].r_cookies[call[t].n + 1]
           last == call[t].n + 1 = Len(call[t].r_cookies)
       IN /\ cookies' = [cookies EXCEPT ![u] = cookie_set(@, item[1], item[2])]
          /\ call' = [call EXCEPT ![t].n = @ + 1,
                                  ![t].stage = IF last THEN "end" ELSE "merge"]
          /\ lock' = [lock EXCEPT ![u] = IF last THEN "free" ELSE @]
    /\ UNCHANGED << rest_target_brokers, cache_attr, _rts_cache, pc, threads,
                    merged, hist, store, valid_session, find, handled >>

\* A login whose except clause lets every HTTPError go on to the caller.
login_except_raise(exc) == IF exc = "none" THEN "True" ELSE exc

\* login, lines 348-354: True, or False on HTTPError (an error is logged
\* when the status is 404); any other exception goes on to the caller.
login_outcome(exc) ==
    IF exc = "none" THEN "True"
    ELSE IF exc = "HTTPError" THEN "False"
    ELSE exc

\* What the session method op makes of the send_request that left with exc.
method_outcome(op, exc) ==
    CASE op = "login" -> login_outcome(exc)
      [] exc # "none" -> exc
      [] op = "acquire" -> "rdata"
      [] OTHER -> "None"

\* send_request, lines 336-344, and the rest of the method that called it.
send_request_return(t) ==
    /\ call[t].stage = "end"
    /\ call[t].op # "validate_session"
    /\ LET exc == send_request([kind |-> http_kind(call[t].resp)]) IN
       call' = [call EXCEPT ![t].stage = "done", ![t].r_cookies = << >>, ![t].n = 0,
                            ![t].outcome = method_outcome(call[t].op, exc)]
    /\ UNCHANGED << rest_target_brokers, cache_attr, _rts_cache, pc, threads,
                    merged, hist, store, cookies, valid_session, lock, find, handled >>

\* login
login(t, u, r) ==
    /\ Quiet(t)
    /\ u \in DOMAIN rest_target_brokers
    /\ lock[u] = "free"
    /\ call' = [call EXCEPT ![t] = send_request_begin("login", u, r)]
    /\ handled' = [handled EXCEPT ![u] = dict_update(@, r.cookies)]
    /\ find' = [find EXCEPT ![t] = NoFind]
    /\ UNCHANGED << rest_target_brokers, cache_attr, _rts_cache, pc, threads,
                    merged, hist, store, cookies, valid_session, lock >>

\* validate_session, lines 360-364 and 373: the request when nothing is
\* cached or validate is set; otherwise line 373 reads the local
\* valid_session, which was never assigned: UnboundLocalError.
validate_session(t, u, validate, r) ==
    /\ Quiet(t)
    /\ u \in DOMAIN rest_target_brokers
    /\ IF valid_session[u] = "None" \/ validate
       THEN /\ lock[u] = "free"
            /\ call' = [call EXCEPT ![t] =
                           [send_request_begin("validate_session", u, r)
                               EXCEPT !.validate = validate]]
            /\ handled' = [handled EXCEPT ![u] = dict_update(@, r.cookies)]
       ELSE /\ call' = [call EXCEPT ![t] =
                           no_request("validate_session", u, "UnboundLocalError")]
            /\ UNCHANGED handled
    /\ find' = [find EXCEPT ![t] = NoFind]
    /\ UNCHANGED << rest_target_brokers, cache_attr, _rts_cache, pc, threads,
                    merged, hist, store, cookies, valid_session, lock >>

\* A validate_session that stores the result after the try statement and
\* not in a finally clause: an exception that goes on stores nothing.
validate_session_after_try(t) ==
    /\ call[t].stage = "end"
    /\ call[t].op = "validate_session"
    /\ lock[call[t].url] = "free"
    /\ LET exc == send_request([kind |-> http_kind(call[t].resp)])
           valid == IF exc = "none" /\ call[t].resp.body = "valid"
                    THEN "True" ELSE "False"
       IN /\ valid_session' = IF exc \in { "none", "HTTPError" }
                              THEN [valid_session EXCEPT ![call[t].url] = valid]
                              ELSE valid_session
          /\ call' = [call EXCEPT ![t].stage = "done", ![t].r_cookies = << >>,
                                  ![t].n = 0,
                                  ![t].outcome = IF exc \in { "none", "HTTPError" }
                                                 THEN valid ELSE exc]
    /\ UNCHANGED << rest_target_brokers, cache_attr, _rts_cache, pc, threads,
                    merged, hist, store, cookies, lock, find, handled >>

\* validate_session, lines 365-373: the finally clause stores the result
\* under the lock; HTTPError is swallowed, any other exception goes on.
validate_session_finally(t) ==
    /\ call[t].stage = "end"
    /\ call[t].op = "validate_session"
    /\ lock[call[t].url] = "free"
    /\ LET exc == send_request([kind |-> http_kind(call[t].resp)])
           valid == IF exc = "none" /\ call[t].resp.body = "valid"
                    THEN "True" ELSE "False"
       IN /\ valid_session' = [valid_session EXCEPT ![call[t].url] = valid]
          /\ call' = [call EXCEPT ![t].stage = "done", ![t].r_cookies = << >>,
                                  ![t].n = 0,
                                  ![t].outcome = IF exc \in { "none", "HTTPError" }
                                                 THEN valid ELSE exc]
    /\ UNCHANGED << rest_target_brokers, cache_attr, _rts_cache, pc, threads,
                    merged, hist, store, cookies, lock, find, handled >>

\* rest_logout, line 563: tb_state_trash, self.cookies = {}.
tb_state_trash(t, u) ==
    /\ Quiet(t)
    /\ u \in DOMAIN rest_target_brokers
    /\ cookies' = [cookies EXCEPT ![u] = EmptyDict]
    /\ handled' = [handled EXCEPT ![u] = EmptyDict]
    /\ call' = [call EXCEPT ![t] = [NoCall EXCEPT !.op = "rest_logout", !.url = u,
                                                  !.stage = "trashed"]]
    /\ find' = [find EXCEPT ![t] = NoFind]
    /\ UNCHANGED << rest_target_brokers, cache_attr, _rts_cache, pc, threads,
                    merged, hist, store, valid_session, lock >>

\* rest_logout, lines 564-565: logout() when the session is known as valid.
logout(t, r) ==
    /\ call[t].stage = "trashed"
    /\ LET u == call[t].url IN
       IF valid_session[u] = "True"
       THEN /\ lock[u] = "free"
            /\ call' = [call EXCEPT ![t] = send_request_begin("logout", u, r)]
            /\ handled' = [handled EXCEPT ![u] = dict_update(@, r.cookies)]
       ELSE /\ call' = [call EXCEPT ![t] = no_request("rest_logout", u, "None")]
            /\ UNCHANGED handled
    /\ UNCHANGED << rest_target_brokers, cache_attr, _rts_cache, pc, threads,
                    merged, hist, store, cookies, valid_session, lock, find >>

\* A method on a target: one send_request on the session rt['rtb'] of the
\* rt the lookup returned.
target_call(t, op, r) ==
    LET rt == find[t].rt[1]
        u == rt.rtb.url
    IN /\ lock[u] = "free"
       /\ call' = [call EXCEPT ![t] =
                      [send_request_begin(op, u, r) EXCEPT !.rt = << rt >>]]
       /\ handled' = [handled EXCEPT ![u] = dict_update(@, r.cookies)]
       /\ find' = [find EXCEPT ![t] = NoFind]

\* A rest_tb_target_acquire that drops the cache, as a target update does.
rest_tb_target_acquire_flush(t, r) ==
    /\ find[t].stage = "found"
    /\ find[t].caller = "rest_target_acquire"
    /\ target_call(t, "acquire", r)
    /\ cache_attr' = "None"
    /\ _rts_cache' = EmptyDict
    /\ UNCHANGED << rest_target_brokers, pc, threads,
                    merged, hist, store, cookies, valid_session, lock >>

\* rest_target_acquire, line 795: rtb.rest_tb_target_acquire(rt).
rest_tb_target_acquire(t, r) ==
    /\ find[t].stage = "found"
    /\ find[t].caller = "rest_target_acquire"
    /\ target_call(t, "acquire", r)
    /\ UNCHANGED << rest_target_brokers, cache_attr, _rts_cache, pc, threads,
                    merged, hist, store, cookies, valid_session, lock >>

\* rest_target_release, line 806: rtb.rest_tb_target_release(rt).
rest_tb_target_release(t, r) ==
    /\ find[t].stage = "found"
    /\ find[t].caller = "rest_target_release"
    /\ target_call(t, "release", r)
    /\ UNCHANGED << rest_target_brokers, cache_attr, _rts_cache, pc, threads,
                    merged, hist, store, cookies, valid_session, lock >>

\* rest_tb_target_active(rt), on the session and the rt a lookup returned.
rest_tb_target_active(t, r) ==
    /\ find[t].stage = "found"
    /\ find[t].caller = "active"
    /\ target_call(t, "active", r)
    /\ UNCHANGED << rest_target_brokers, cache_attr, _rts_cache, pc, threads,
                    merged, hist, store, cookies, valid_session, lock >>

\* The frame of a call on the state directory: the registry, the cache and
\* the sessions stay.
StateFrame ==
    UNCHANGED << rest_target_brokers, cache_attr, _rts_cache, pc, threads, merged,
                 hist, cookies, valid_session, lock, call, find, handled >>

\* rest_shutdown, lines 461-462, for one rtb: tb_state_save.  No cookies
\* remove the file (rm_f ignores that there is none); otherwise the pickle
\* is written under the lock, and os.open raises OSError on a file that
\* denies the access.
tb_state_save(t, u) ==
    /\ Quiet(t)
    /\ u \in DOMAIN rest_target_brokers
    /\ lock[u] = "free"
    /\ LET name == state_file_name(u)
           f == state_file[name]
           denied == cookies[u] # EmptyDict /\ f.kind = "denied"
       IN /\ state_file' =
                [state_file EXCEPT ![name] =
                    IF cookies[u] = EmptyDict THEN NoFile
                    ELSE IF denied THEN f
                    ELSE [kind |-> "file",
                          bytes |-> file_write(f.bytes, pickle_dump(cookies[u]))]]
          /\ run' = [op |-> "tb_state_save", url |-> u, file |-> f,
                     cookies |-> cookies[u],
                     outcome |-> IF denied THEN "OSError" ELSE "none"]
    /\ StateFrame

\* rest_target_broker(state_path, url): the constructor, for a session
\* that is not put in the registry.  saved is history: the cookies of the
\* tb_state_save that came right before, for the same URL.
rest_target_broker__init__(t, url) ==
    /\ Quiet(t)
    /\ LET name == state_file_name(url)
           ld == tb_state_load(state_file[name])
       IN /\ state_file' = [state_file EXCEPT ![name] = ld.file]
          /\ run' = [op |-> "__init__", url |-> url, file |-> state_file[name],
                     cookies |-> ld.cookies, outcome |-> ld.exc,
                     saved |-> IF run.op = "tb_state_save" /\ run.url = url
                                  /\ run.outcome = "none"
                               THEN << run.cookies >> ELSE << >>]
    /\ StateFrame

\* What a broker answers to GET targets/<target_id>: the target of that id,
\* no target, or a failure.
UpdateResponses(target_id) ==
    { [kind |-> "targets", ids |-> << target_id >>],
      [kind |-> "targets", ids |-> << >>] }
      \cup { [kind |-> k, ids |-> << >>] : k \in FailureKinds }

\* An assignment of rtd to the cache, which drops the other entries.
cache_assign(c, rtd) == rtd

\* rest_tb_target_update, line 422: type(self)._rts_cache.update(rtd), one
\* call of dict.update with the descriptors of rtd.
cache_update(c, rtd) == dict_update(c, rtd)

\* rest_tb_target_update(target_id) on the session of u: the list call for
\* the one target, then the update of the class attribute _rts_cache, which
\* is read as it is (None has no update: AttributeError), and rtd[fullid].
\* An exception of the list call goes on to the caller; an empty list is
\* ValueError.
rest_tb_target_update(t, u, target_id, resp) ==
    /\ Quiet(t)
    /\ u \in DOMAIN rest_target_brokers
    /\ LET rtb == rest_target_brokers[u]
           fullid == rtb.aka \o << "/" >> \o target_id
           r == rest_tb_target_list(rtb, resp)
           rtd == _rt_list_to_dict(r.value)
           outcome == IF r.exc # "none" THEN r.exc
                      ELSE IF r.value = << >> THEN "ValueError"
                      ELSE IF cache_attr # "dict" THEN "AttributeError"
                      ELSE IF fullid \notin DOMAIN rtd THEN "KeyError"
                      ELSE "none"
       IN /\ _rts_cache' = IF outcome \in { "none", "KeyError" }
                           THEN cache_update(_rts_cache, rtd) ELSE _rts_cache
          /\ run' = [op |-> "rest_tb_target_update", url |-> u, fullid |-> fullid,
                     resp |-> resp, cache |-> _rts_cache, outcome |-> outcome,
                     value |-> IF outcome = "none" THEN << rtd[fullid] >> ELSE << >>]
    /\ UNCHANGED << rest_target_brokers, cache_attr, pc, threads, merged, hist,
                    sess, state_file >>

\* ------------------------------------------------------------- behaviours
Step(t) ==
    \/ \E url \in Urls, aka \in AkaArgs : rest_init(t, url, aka)
    \/ rts_cache_enter(t)
    \/ \E u \in Urls, resp \in Responses : rts_cache_task(t, u, resp)
    \/ rts_cache_join(t)
    \/ \E u \in Urls : rts_cache_merge(t, u)
    \/ rts_cache_return(t)
    \/ rts_cache_flush_del(t)
    \/ rts_cache_flush_set(t)

\* Several caller threads share the registry and the cache.
Next == \E t \in Threads : Step(t)

Spec == Init /\ [][Next]_vars

\* One caller thread: the command line, which calls in sequence.
NextSeq == Step(MainThread)

SpecSeq == Init /\ [][NextSeq]_vars

\* The steps of one access to rts_cache after its test of the cache.
RefreshStep(t) ==
    \/ \E u \in Urls, resp \in Responses : rts_cache_task(t, u, resp)
    \/ rts_cache_join(t)
    \/ \E u \in Urls : rts_cache_merge(t, u)
    \/ rts_cache_return(t)

\* The command line, when every list call returns or fails (each request
\* has a timeout) and the caller's thread keeps running.
SpecSeqFair == SpecSeq /\ WF_vars(RefreshStep(MainThread))

\* ------------------------------------------------------------- lookups on a cache
\* The orders in which the elements of S can be taken.
Orders(S) ==
    { o \in [1..Cardinality(S) -> S] :
          \A i, j \in 1..Cardinality(S) : i # j => o[i] # o[j] }

\* The merge loop of rts_cache, lines 225-227, over the tasks' results taken
\* in the given order.
RECURSIVE merge_in_order(_, _)
merge_in_order(results, order) ==
    IF Len(order) = 0 THEN EmptyDict
    ELSE dict_update(merge_in_order(results, SubSeq(order, 1, Len(order) - 1)),
                     results[order[Len(order)]])

\* The registries that calls of rest_init leave.
Registries ==
    UNION { { [u \in S |-> rest_target_broker_init(u, akas[u])] :
                akas \in [S -> AkaArgs] } : S \in SUBSET Urls }

\* The ids the brokers hold in the lookups: one id more than Ids, so that
\* an id can have the form of another target's fullid.
FindIds == { IdList[i] : i \in 1..(NIds + 1) }

find_ids_list(S) == SelectSeq(SubSeq(IdList, 1, NIds + 1), LAMBDA i : i \in S)

FindResponses ==
    { [kind |-> "targets", ids |-> find_ids_list(S)] : S \in SUBSET FindIds }

\* The names a lookup or a command is given: bare ids and fullids.
FindTargets ==
    FindIds \cup { AkaList[a] \o << "/" >> \o i : a \in 1..(NAkas + 1), i \in FindIds }

\* A valid cache: the merge, in some order, of what _rts_get made of each
\* registered broker's answer.
InitFind ==
    /\ rest_target_brokers \in Registries
    /\ cache_attr = "dict"
    /\ \E resps \in [DOMAIN rest_target_brokers -> FindResponses],
          order \in Orders(DOMAIN rest_target_brokers) :
          _rts_cache =
              merge_in_order([u \in DOMAIN rest_target_brokers |->
                                 _rts_get(rest_target_brokers[u], resps[u]).value],
                             order)
    /\ pc = [t \in Threads |-> "idle"]
    /\ threads = [t \in Threads |-> NoThreads]
    /\ merged = [t \in Threads |-> {}]
    /\ flushed = FALSE
    /\ stale = [t \in Threads |-> {}]
    /\ cache_stale = {}
    /\ InitSessions

NextFind ==
    \/ \E target \in FindTargets :
          _rest_target_find_by_id(MainThread, target, "none")
    \/ _rest_target_find_by_id_scan(MainThread)

SpecFind == InitFind /\ [][NextFind]_vars

\* ------------------------------------------------------------- commands
\* The brokers of the commands: two, so that a target is another
\* session's or this one's.
CmdUrls == { UrlList[1], UrlList[2] }

\* The two brokers are registered under their default aliases and hold
\* every target id, and the cache is valid.
InitCmd ==
    /\ rest_target_brokers = [u \in CmdUrls |-> rest_target_broker_init(u, NoAka)]
    /\ cache_attr = "dict"
    /\ _rts_cache =
          merge_in_order([u \in CmdUrls |->
                             _rts_get(rest_target_brokers[u],
                                      [kind |-> "targets", ids |-> ids_list(Ids)]).value],
                         CHOOSE o \in Orders(CmdUrls) : TRUE)
    /\ pc = [t \in Threads |-> "idle"]
    /\ threads = [t \in Threads |-> NoThreads]
    /\ merged = [t \in Threads |-> {}]
    /\ flushed = FALSE
    /\ stale = [t \in Threads |-> {}]
    /\ cache_stale = {}
    /\ InitSessions

TargetCallers == { "rest_target_acquire", "rest_target_release", "active" }

\* The steps of send_request after the response has come.
RequestStep(t) ==
    \/ send_request_update(t)
    \/ send_request_merge(t)
    \/ send_request_return(t)

\* The steps of the commands on a target.
TargetStep(t) ==
    \/ \E target \in FindTargets, caller \in TargetCallers :
          _rest_target_find_by_id(t, target, caller)
    \/ _rest_target_find_by_id_scan(t)
    \/ \E r \in HttpResponses : rest_tb_target_acquire(t, r)
    \/ \E r \in HttpResponses : rest_tb_target_release(t, r)
    \/ \E r \in HttpResponses : rest_tb_target_active(t, r)

\* One caller: the command line, acquiring, releasing and activating.
NextCmd == TargetStep(MainThread) \/ RequestStep(MainThread)

SpecCmd == InitCmd /\ [][NextCmd]_vars

\* ------------------------------------------------------------- sessions
\* One broker is registered and nothing was listed yet.
InitSess ==
    /\ rest_target_brokers =
          [u \in { UrlList[1] } |-> rest_target_broker_init(u, NoAka)]
    /\ cache_attr = "None"
    /\ _rts_cache = EmptyDict
    /\ pc = [t \in Threads |-> "idle"]
    /\ threads = [t \in Threads |-> NoThreads]
    /\ merged = [t \in Threads |-> {}]
    /\ flushed = FALSE
    /\ stale = [t \in Threads |-> {}]
    /\ cache_stale = {}
    /\ InitSessions

\* The steps of login, validate_session and rest_logout, with the responses
\* of R.
SessionStep(t, R) ==
    \/ \E u \in Urls, r \in R : login(t, u, r)
    \/ \E u \in Urls, validate \in BOOLEAN, r \in R :
          validate_session(t, u, validate, r)
    \/ validate_session_finally(t)
    \/ \E u \in Urls : tb_state_trash(t, u)
    \/ \E r \in R : logout(t, r)

\* One caller: the command line, logging in and out.
NextSessSeq == SessionStep(MainThread, HttpResponses) \/ RequestStep(MainThread)

SpecSessSeq == InitSess /\ [][NextSessSeq]_vars

\* The responses of a broker that accepts every request.
OkResponses ==
    { r \in HttpResponses : r.kind = "response" /\ r.status = 200 /\ r.body = "valid" }

\* Several callers that use the session at a time.
NextSess == \E t \in Threads : SessionStep(t, OkResponses) \/ RequestStep(t)

SpecSess == InitSess /\ [][NextSess]_vars

\* ------------------------------------------------------------- state directory
\* The files a state directory can hold under a session's name: none, one
\* that denies the access, and files with the pickle of a cookie set, whole
\* or cut short, with no byte, or with bytes that are no pickle.
StateFiles ==
    { NoFile, DeniedFile }
      \cup { [kind |-> "file", bytes |-> pickle_dump(c)] : c \in CookieSets }
      \cup { [kind |-> "file",
              bytes |-> SubSeq(pickle_dump(c), 1, Len(pickle_dump(c)) - 1)] :
                c \in CookieSets }
      \cup { [kind |-> "file", bytes |-> b] : b \in { << >>, << "garbage" >> } }

\* One broker is registered; its session holds the cookies its responses
\* left, and the state directory holds a file of an earlier run, or none.
InitState ==
    /\ rest_target_brokers =
          [u \in { UrlList[1] } |-> rest_target_broker_init(u, NoAka)]
    /\ cache_attr = "None"
    /\ _rts_cache = EmptyDict
    /\ pc = [t \in Threads |-> "idle"]
    /\ threads = [t \in Threads |-> NoThreads]
    /\ merged = [t \in Threads |-> {}]
    /\ flushed = FALSE
    /\ stale = [t \in Threads |-> {}]
    /\ cache_stale = {}
    /\ \E c \in CookieSets :
          /\ cookies = [u \in Urls |-> IF u = UrlList[1] THEN c ELSE EmptyDict]
          /\ handled = cookies
    /\ valid_session = [u \in Urls |-> "None"]
    /\ lock = [u \in Urls |-> "free"]
    /\ call = [t \in Threads |-> NoCall]
    /\ find = [t \in Threads |-> NoFind]
    /\ \E f \in StateFiles :
          state_file = [n \in StateFileNames |->
                           IF n = state_file_name(UrlList[1]) THEN f ELSE NoFile]
    /\ run = NoRun

\* The command line saves the state and constructs sessions from it.
NextState ==
    \/ \E u \in Urls : tb_state_save(MainThread, u)
    \/ \E u \in Urls : rest_target_broker__init__(MainThread, u)

SpecState == InitState /\ [][NextState]_vars

\* Brokers of one state directory: two on the host a.x whose URLs differ in
\* a '/' of the path, and one on the host b.x.
StoreUrls ==
    { [hostname |-> << "a", ".", "x" >>, path |-> << "/", "t1", "/", "t2" >>],
      [hostname |-> << "a", ".", "x" >>, path |-> << "/", "t1", "t2" >>],
      [hostname |-> << "b", ".", "x" >>, path |-> << >>] }

\* The brokers are registered, each session holds the cookies its responses
\* left, and the state directory is new.
InitStore ==
    /\ rest_target_brokers = [u \in StoreUrls |-> rest_target_broker_init(u, NoAka)]
    /\ cache_attr = "None"
    /\ _rts_cache = EmptyDict
    /\ pc = [t \in Threads |-> "idle"]
    /\ threads = [t \in Threads |-> NoThreads]
    /\ merged = [t \in Threads |-> {}]
    /\ flushed = FALSE
    /\ stale = [t \in Threads |-> {}]
    /\ cache_stale = {}
    /\ cookies \in [StoreUrls -> { c \in CookieSets : DOMAIN c # CookieNames }]
    /\ handled = cookies
    /\ valid_session = [u \in StoreUrls |-> "None"]
    /\ lock = [u \in StoreUrls |-> "free"]
    /\ call = [t \in Threads |-> NoCall]
    /\ find = [t \in Threads |-> NoFind]
    /\ state_file = [n \in { state_file_name(u) : u \in StoreUrls } |-> NoFile]
    /\ run = NoRun

\* rest_shutdown saves the state of the sessions, and a later run of the
\* command line constructs its sessions from the state directory.
NextStore ==
    \/ \E u \in StoreUrls : tb_state_save(MainThread, u)
    \/ \E u \in StoreUrls : rest_target_broker__init__(MainThread, u)

SpecStore == InitStore /\ [][NextStore]_vars

\* ------------------------------------------------------------- target updates
\* The brokers are registered and nothing was listed yet.
InitUpdate ==
    /\ rest_target_brokers \in Registries
    /\ cache_attr = "None"
    /\ _rts_cache = EmptyDict
    /\ pc = [t \in Threads |-> "idle"]
    /\ threads = [t \in Threads |-> NoThreads]
    /\ merged = [t \in Threads |-> {}]
    /\ flushed = FALSE
    /\ stale = [t \in Threads |-> {}]
    /\ cache_stale = {}
    /\ InitSessions

\* A thread that reads the cache: the lookups of a target.
Reader == ThreadList[2]

\* The command line refreshes, invalidates and updates targets, one call
\* after the other, while the reader looks targets up.
NextUpdate ==
    \/ rts_cache_enter(MainThread)
    \/ \E u \in Urls, resp \in Responses : rts_cache_task(MainThread, u, resp)
    \/ rts_cache_join(MainThread)
    \/ \E u \in Urls : rts_cache_merge(MainThread, u)
    \/ rts_cache_return(MainThread)
    \/ rts_cache_flush_del(MainThread)
    \/ rts_cache_flush_set(MainThread)
    \/ \E u \in Urls, target_id \in Ids :
          \E resp \in UpdateResponses(target_id) :
             rest_tb_target_update(MainThread, u, target_id, resp)
    \/ \E target \in FindTargets : _rest_target_find_by_id(Reader, target, "none")
    \/ _rest_target_find_by_id_scan(Reader)

SpecUpdate == InitUpdate /\ [][NextUpdate]_vars

\* ------------------------------------------------------------- properties
\* The positions of a caller inside one access to rts_cache.
AccessPcs == { "return_hit", "return_empty", "fanout", "merge", "return" }

\* The step in which caller t starts an access to rts_cache.
enters(t) == pc[t] = "idle" /\ pc'[t] \in AccessPcs

\* The fullids the task of broker u returned.
fullids(tasks, u) == DOMAIN tasks[u].value

\* The fullids all the tasks of one fan-out returned.
round_fullids(tasks) == UNION { fullids(tasks, u) : u \in DOMAIN tasks }

\* Every descriptor the tasks returned is in the mapping c.
holds_round(c, tasks) == round_fullids(tasks) \subseteq DOMAIN c

\* Every entry of the mapping c is a descriptor one of the tasks returned.
from_round(c, tasks) ==
    \A k \in DOMAIN c :
        \E u \in DOMAIN tasks : k \in fullids(tasks, u) /\ c[k] = tasks[u].value[k]

\* C1: one access on an invalid cache issues exactly one list call per
\* registered broker, and the key set of the cache it returns is the
\* disjoint union of the fullids each broker returned.
C1_OneCallPerBrokerDisjointUnion ==
    \A t \in Threads :
        pc[t] = "return" =>
            /\ DOMAIN threads[t] = DOMAIN rest_target_brokers
            /\ \A u \in DOMAIN threads[t] : threads[t][u].calls = 1
            /\ DOMAIN _rts_cache = round_fullids(threads[t])
            /\ \A u, v \in DOMAIN threads[t] :
                  u # v => fullids(threads[t], u) \cap fullids(threads[t], v) = {}

\* The round of caller t in which every list call either succeeded or failed
\* as Unreachable, as a timeout or as RemoteError.
only_failed_requests(t) ==
    \A u \in DOMAIN threads[t] : threads[t][u].resp \in { "targets", "failed" }

\* C2: for a single caller, in a round in which every broker's list call
\* either succeeds or fails as Unreachable, timeout or RemoteError, the
\* merge never raises and ends with the cache valid, holding every fullid of
\* the brokers that succeeded and no entry of a broker that failed; when
\* every broker failed the cache is valid and empty.
C2_FailedRequestDegradesToEmpty ==
    [][\A t \in Threads :
          (pc[t] = "merge" /\ only_failed_requests(t)) =>
              /\ pc'[t] \in { "merge", "return" }
              /\ pc'[t] = "return" =>
                    /\ cache_attr' = "dict"
                    /\ \A u \in DOMAIN threads[t] :
                          IF threads[t][u].resp = "targets"
                          THEN fullids(threads[t], u) \subseteq DOMAIN _rts_cache'
                          ELSE \A k \in DOMAIN _rts_cache' :
                                  _rts_cache'[k].rtb.url # u
                    /\ (\A u \in DOMAIN threads[t] : threads[t][u].resp = "failed")
                          => _rts_cache' = EmptyDict]_vars

\* A refresh is about to return a cache that holds the target of the broker
\* that answered and nothing of the broker whose request failed.
C2_Witness ==
    \E t \in Threads :
        /\ pc[t] = "return"
        /\ cache_attr = "dict"
        /\ \E u, v \in DOMAIN threads[t] :
              /\ threads[t][u].resp = "failed"
              /\ threads[t][v].resp = "targets"
              /\ fullids(threads[t], v) # {}
              /\ DOMAIN _rts_cache = fullids(threads[t], v)

\* C3: a refresh is never aborted by one broker's failure, of any kind: once
\* the tasks have joined, the merge runs to the return.
C3_RefreshNeverAborts ==
    [][\A t \in Threads : pc[t] = "merge" => pc'[t] \in { "merge", "return" }]_vars

\* C4: no refresh leaves a cache that is marked valid and holds only part of
\* its round: when the merge loop ends, by its return or by an exception,
\* the cache is invalid or holds every descriptor the round's tasks returned.
C4_ValidCacheIsCompleteRound ==
    [][\A t \in Threads :
          (pc[t] = "merge" /\ pc'[t] # "merge") =>
              \/ cache_attr' # "dict"
              \/ /\ holds_round(_rts_cache', threads[t])
                 /\ from_round(_rts_cache', threads[t])]_vars

\* C5: for a single caller, an access on a valid cache (empty or not)
\* returns that mapping and starts no fan-out, so issues no list call; and a
\* cache stays valid until a flush, so that of two consecutive accesses with
\* no flush between them at most the first fans out.
C5_ValidCacheIsReturnedWithoutFanout ==
    [][\A t \in Threads :
          /\ (enters(t) /\ cache_attr = "dict") =>
                /\ pc'[t] = "return_hit"
                /\ UNCHANGED << cache_attr, _rts_cache, threads >>
          /\ pc[t] = "return_hit" =>
                /\ cache_attr = "dict"
                /\ UNCHANGED << cache_attr, _rts_cache, threads >>
          /\ (pc[t] \in AccessPcs /\ pc'[t] = "idle") => cache_attr' = "dict"
          /\ (cache_attr = "dict" /\ cache_attr' # "dict") =>
                \E f \in Threads : pc[f] = "idle" /\ pc'[f] = "flush_set"]_vars

\* An access found brokers registered and the cache valid and empty, and is
\* about to return it.
C5_Witness ==
    \E t \in Threads :
        /\ pc[t] = "return_hit"
        /\ cache_attr = "dict"
        /\ _rts_cache = EmptyDict
        /\ DOMAIN rest_target_brokers # {}

\* C6: for a single caller, rts_cache_flush leaves the cache invalid; the
\* next access then fans out with one task for every broker registered at
\* that moment, each of which issues its list call before the join; and the
\* mapping the merge ends with holds descriptors of that round only.
C6_FlushThenAccessFansOutAgain ==
    [][\A t \in Threads :
          /\ (pc[t] = "flush_set" /\ pc'[t] = "idle") => cache_attr' = "None"
          /\ (enters(t) /\ cache_attr = "None" /\ DOMAIN rest_target_brokers # {}) =>
                /\ pc'[t] = "fanout"
                /\ threads'[t] = [u \in DOMAIN rest_target_brokers |->
                                     PendingTask(rest_target_brokers[u])]
          /\ (pc[t] = "fanout" /\ pc'[t] = "merge") =>
                \A u \in DOMAIN threads[t] : threads[t][u].calls = 1
          /\ (pc[t] = "merge" /\ pc'[t] = "return") =>
                /\ cache_attr' = "dict"
                /\ from_round(_rts_cache', threads[t])
                /\ holds_round(_rts_cache', threads[t])]_vars

\* A flush dropped a cache that held entries, and the access after it has
\* fanned out and is about to return a cache in which none of them is left,
\* because no broker returned a target in the new round.
C6_Witness ==
    \E t \in Threads :
        /\ pc[t] = "return"
        /\ flushed
        /\ \A u \in DOMAIN threads[t] : threads[t][u].resp = "targets"
        /\ DOMAIN threads[t] = DOMAIN rest_target_brokers
        /\ cache_attr = "dict"
        /\ _rts_cache = EmptyDict

\* C7: the next read of a caller that flushed the cache does not return data
\* a refresh fetched before that flush.
C7_NoStaleReadAfterFlush ==
    \A t \in Threads :
        (pc[t] = "return_hit" /\ cache_attr = "dict" /\ _rts_cache # EmptyDict)
            => t \notin cache_stale

\* C8: a caller that reads rts_cache while another caller is merging never
\* gets a mapping that lacks a contribution of that round still to be merged.
C8_ReaderNeverSeesPartialMerge ==
    \A t, o \in Threads :
        (t # o /\ pc[t] = "return_hit" /\ pc[o] = "merge" /\ cache_attr = "dict") =>
            \A u \in (DOMAIN threads[o]) \ merged[o] :
                fullids(threads[o], u) \subseteq DOMAIN _rts_cache

\* C9: registering a broker with rest_init invalidates the cache.
C9_RestInitInvalidatesCache ==
    [][rest_target_brokers' # rest_target_brokers => cache_attr' # "dict"]_vars

\* C10: the aliases of the registered broker sessions are pairwise distinct.
C10_AliasesPairwiseDistinct ==
    \A u, v \in DOMAIN rest_target_brokers :
        u # v => rest_target_brokers[u].aka # rest_target_brokers[v].aka


\* C11: the cache a refresh returns is the same mapping for every order in
\* which the brokers' results are merged.
C11_MergeOrderIndependent ==
    \A t \in Threads :
        pc[t] = "return" =>
            \A o \in Orders(DOMAIN threads[t]) :
                merge_in_order([u \in DOMAIN threads[t] |-> threads[t][u].value], o)
                    = _rts_cache

\* The entries of the cache whose broker-local id is the name.
id_matches(name) == { k \in DOMAIN _rts_cache : _rts_cache[k].id = name }

\* C12: a lookup returns the entry whose cache key is the name when there
\* is one; otherwise an entry whose id is the name when there is one;
\* otherwise it raises IndexError.  It scans only when no key is the name.
C12_FindByKeyThenById ==
    \A t \in Threads :
        LET f == find[t] IN
        /\ f.stage = "found" =>
              IF f.target \in DOMAIN _rts_cache
              THEN f.rt = << _rts_cache[f.target] >>
              ELSE \E k \in id_matches(f.target) : f.rt = << _rts_cache[k] >>
        /\ f.stage = "scan" => f.target \notin DOMAIN _rts_cache
        /\ f.stage = "IndexError" =>
              f.target \notin DOMAIN _rts_cache /\ id_matches(f.target) = {}

\* A lookup returned the entry whose key is the name, while another entry
\* has that name as its id.
C12_Witness ==
    \E t \in Threads :
        /\ find[t].stage = "found"
        /\ find[t].target \in DOMAIN _rts_cache
        /\ find[t].rt = << _rts_cache[find[t].target] >>
        /\ id_matches(find[t].target) # {}

\* The alphabet of the aliases, in its order.
Alphabet == << ".", "/", "a", "b", "c", "d", "t1", "t2" >>

rank(ch) == CHOOSE i \in DOMAIN Alphabet : Alphabet[i] = ch

\* x <= y in the alphabetical order of strings.
RECURSIVE str_le(_, _)
str_le(x, y) ==
    IF x = << >> THEN TRUE
    ELSE IF y = << >> THEN FALSE
    ELSE IF Head(x) = Head(y) THEN str_le(Tail(x), Tail(y))
    ELSE rank(Head(x)) < rank(Head(y))

\* C13: a lookup by a bare id that several brokers hold returns the target
\* of the alphabetically first alias.
C13_BareIdResolvesToFirstAlias ==
    \A t \in Threads :
        (find[t].stage = "found" /\ find[t].target \notin DOMAIN _rts_cache) =>
            \A k \in id_matches(find[t].target) :
                str_le(find[t].rt[1].rtb.aka, _rts_cache[k].rtb.aka)

\* The step in which caller t calls validate_session.
calls_validate_session(t) ==
    /\ call[t].stage \in { "idle", "done" }
    /\ call'[t].op = "validate_session"
    /\ call'[t] # call[t]

\* C14: once validate_session has cached a result, a call without validate
\* returns the cached boolean with no request and without raising; a call
\* with validate issues one request and replaces the cached value.
C14_ValidateSessionCachesResult ==
    [][\A t \in Threads :
          /\ (calls_validate_session(t) /\ ~call'[t].validate
                 /\ valid_session[call'[t].url] # "None") =>
                /\ call'[t].stage = "done"
                /\ call'[t].requests = 0
                /\ call'[t].outcome = valid_session[call'[t].url]
          /\ (calls_validate_session(t) /\ call'[t].validate) =>
                call'[t].requests = 1
          /\ (call[t].op = "validate_session" /\ call[t].stage = "end"
                 /\ call'[t].stage = "done") =>
                /\ call'[t].requests = 1
                /\ valid_session'[call[t].url] \in { "True", "False" }
                /\ call'[t].outcome \in { "True", "False" } =>
                      call'[t].outcome = valid_session'[call[t].url]]_vars

C16_LoginPropagatesOtherStatus ==
    \A t \in Threads :
        (call[t].op = "login" /\ call[t].stage = "done"
            /\ call[t].resp.kind = "response"
            /\ call[t].resp.status >= 400 /\ call[t].resp.status # 404) =>
            call[t].outcome = "HTTPError"

\* The outcomes of a call that are an exception raised to the caller.
Exceptions ==
    { "ConnectionError", "Timeout", "HTTPError", "ValueError", "KeyError",
      "UnboundLocalError", "IndexError" }

\* C17: an acquire that the broker rejects with an error status ends, after
\* one request, with an outcome that is not an exception raised to the
\* caller of rest_target_acquire.
C17_RejectedAcquireIsNotAnException ==
    \A t \in Threads :
        (call[t].op = "acquire" /\ call[t].stage = "done"
            /\ call[t].resp.kind = "response" /\ call[t].resp.status >= 400) =>
            /\ call[t].requests = 1
            /\ call[t].outcome \notin Exceptions

TargetOps == { "acquire", "release", "active" }

\* C18: rest_tb_target_acquire, _release and _active issue one request, to
\* the session rt['rtb'] of their target, and no second one whatever the
\* outcome; no step of them changes the registry, the cache, its validity,
\* a session's valid flag or another session's cookies.
C18_TargetCallsAreOneRequestAndFrame ==
    [][\A t \in Threads :
          /\ (call'[t].op \in TargetOps /\ call'[t] # call[t]) =>
                /\ UNCHANGED << rest_target_brokers, cache_attr, _rts_cache,
                                valid_session >>
                /\ \A v \in Urls : v # call'[t].url => cookies'[v] = cookies[v]
                /\ call'[t].requests = 1
                /\ call'[t].rt # << >>
                /\ call'[t].url = call'[t].rt[1].rtb.url
                /\ \E k \in DOMAIN _rts_cache : call'[t].rt = << _rts_cache[k] >>
          /\ (call[t].op \in TargetOps /\ call[t].stage = "end") =>
                call'[t].stage \in { "end", "done" }]_vars

\* A release that the broker answered with an error status and a cookie
\* has ended with the HTTPError after its one request, the cookie stored.
C18_Witness ==
    \E t \in Threads :
        /\ call[t].op = "release"
        /\ call[t].stage = "done"
        /\ call[t].outcome = "HTTPError"
        /\ call[t].requests = 1
        /\ cookies[call[t].url] # EmptyDict
        /\ cache_attr = "dict"

\* C19: for a single caller, when no response is being handled the cookie
\* set of a session is the merge by name, in handling order, of the cookie
\* sets of the responses it handled (since the session was made or trashed).
C19_CookiesAreMergeOfResponses ==
    (\A t \in Threads : call[t].stage \notin { "cookies", "merge" }) =>
        \A u \in Urls : cookies[u] = handled[u]

\* A response that carried one cookie has been handled: that cookie has the
\* response's value and a cookie of an earlier response is kept.
C19_Witness ==
    \E t \in Threads :
        /\ call[t].stage = "end"
        /\ Len(call[t].r_cookies) = 1
        /\ call[t].n = 1
        /\ DOMAIN cookies[call[t].url] = CookieNames
        /\ cookies[call[t].url][call[t].r_cookies[1][1]] = call[t].r_cookies[1][2]
        /\ \E m \in CookieNames :
              cookies[call[t].url][m] # call[t].r_cookies[1][2]

\* C20: every step that changes a session's cookies is a step of the caller
\* that holds that session's lock.
C20_CookiesChangeOnlyUnderLock ==
    [][\A u \in Urls :
          cookies'[u] # cookies[u] =>
              \E t \in Threads : lock[u] = t /\ call'[t] # call[t]]_vars

\* ------------------------------------------------------------- descriptors
\* The values of a target descriptor, by their JSON type: null, a string,
\* an integer (a boolean is one), a nested map; and the session object that
\* rest_tb_target_list stores under 'rtb'.  A string is its characters.
Null == [t |-> "null", v |-> << >>]

Str(s) == [t |-> "str", v |-> s]

Num(n) == [t |-> "int", v |-> n]

Map(m) == [t |-> "map", v |-> m]

Obj(o) == [t |-> "obj", v |-> o]

\* A dict with the one key k.
item(k, value) == [x \in { << k >> } |-> value]

\* dict_update over several dicts, in turn.
RECURSIVE dict_of(_)
dict_of(ds) ==
    IF ds = << >> THEN EmptyDict
    ELSE dict_update(dict_of(SubSeq(ds, 1, Len(ds) - 1)), ds[Len(ds)])

\* rt.get(key, default)
rt_get(rt, k, default) == IF << k >> \in DOMAIN rt THEN rt[<< k >>] ELSE default

\* ------------------------------------------------------------- keywords
\* _kws_update: every key of rt under prefix + key; None becomes "", any
\* other value is copied as it is, a nested dict too.
_kws_update(kws, rt, prefix) ==
    IF rt.t # "map" THEN kws
    ELSE dict_update(kws,
             [k \in { prefix \o key : key \in DOMAIN rt.v } |->
                 LET key == CHOOSE key \in DOMAIN rt.v : prefix \o key = k
                 IN IF rt.v[key].t = "null" THEN Str(<< >>) ELSE rt.v[key]])

\* kws_update_type_string: None becomes "", strings and integers are
\* copied, any other value is skipped.
kws_update_type_string(kws, rt, prefix) ==
    IF rt.t # "map" THEN kws
    ELSE dict_update(kws,
             [k \in { prefix \o key : key \in { x \in DOMAIN rt.v :
                          rt.v[x].t \in { "null", "str", "int" } } } |->
                 LET key == CHOOSE key \in DOMAIN rt.v : prefix \o key = k
                 IN IF rt.v[key].t = "null" THEN Str(<< >>) ELSE rt.v[key]])

\* kws_update_from_rt, lines 694-713: the attributes of rt, then 'target',
\* 'type' and 'interconnects', each assigned over what _kws_update set.
kws_update_from_rt(kws, rt) ==
    LET k1 == _kws_update(kws, Map(rt), << >>)
        safe == file_name_make_safe(IF << "fullid" >> \in DOMAIN rt
                                    THEN rt[<< "fullid" >>].v ELSE rt[<< "id" >>].v)
        k2 == dict_update(k1, item("target", Str(safe)))
        k3 == dict_update(k2, item("type", rt_get(rt, "type", Str(<< "n", "/", "a" >>))))
        ic == IF << "interconnects" >> \in DOMAIN rt
              THEN _kws_update(EmptyDict, rt[<< "interconnects" >>], << >>)
              ELSE EmptyDict
    IN dict_update(k3, item("interconnects", Map(ic)))

\* ------------------------------------------------------------- expressions
\* The words of the expression language.
Reserved == { "(", ")", "and", "or", "not", "==" }

\* The value of a symbol: the keyword's, "" for a symbol that is no keyword.
sym_value(kws, sym) == IF << sym >> \in DOMAIN kws THEN kws[<< sym >>] ELSE Str(<< >>)

\* The truth of a value: None, "", 0 and {} are false.
truthy(value) ==
    CASE value.t = "null" -> FALSE
      [] value.t = "int" -> value.v # 0
      [] value.t = "obj" -> TRUE
      [] OTHER -> value.v # << >>

ParseError == [ok |-> FALSE, val |-> FALSE, rest |-> << >>]

RECURSIVE parse_or(_, _), parse_or_rest(_, _), parse_and(_, _),
          parse_and_rest(_, _), parse_not(_, _), parse_atom(_, _)

\* ( expr ), symbol == "text", or a symbol, which is true when its value is.
parse_atom(ts, kws) ==
    IF ts = << >> THEN ParseError
    ELSE IF Head(ts) = "("
    THEN LET r == parse_or(Tail(ts), kws) IN
         IF r.ok /\ r.rest # << >> /\ Head(r.rest) = ")"
         THEN [ok |-> TRUE, val |-> r.val, rest |-> Tail(r.rest)]
         ELSE ParseError
    ELSE IF Head(ts) \in Reserved THEN ParseError
    ELSE IF Len(ts) >= 2 /\ ts[2] = "=="
    THEN IF Len(ts) >= 3 /\ ts[3] \notin Reserved
         THEN [ok |-> TRUE, val |-> sym_value(kws, ts[1]) = Str(<< ts[3] >>),
               rest |-> SubSeq(ts, 4, Len(ts))]
         ELSE ParseError
    ELSE [ok |-> TRUE, val |-> truthy(sym_value(kws, ts[1])), rest |-> Tail(ts)]

\* not binds tighter than and.
parse_not(ts, kws) ==
    IF ts # << >> /\ Head(ts) = "not"
    THEN LET r == parse_not(Tail(ts), kws) IN
         IF r.ok THEN [r EXCEPT !.val = ~r.val] ELSE ParseError
    ELSE parse_atom(ts, kws)

parse_and_rest(l, kws) ==
    IF l.ok /\ l.rest # << >> /\ Head(l.rest) = "and"
    THEN LET r == parse_not(Tail(l.rest), kws) IN
         IF r.ok THEN parse_and_rest([r EXCEPT !.val = l.val /\ r.val], kws)
         ELSE ParseError
    ELSE l

\* and binds tighter than or, and both associate to the left.
parse_and(ts, kws) == parse_and_rest(parse_not(ts, kws), kws)

parse_or_rest(l, kws) ==
    IF l.ok /\ l.rest # << >> /\ Head(l.rest) = "or"
    THEN LET r == parse_and(Tail(l.rest), kws) IN
         IF r.ok THEN parse_or_rest([r EXCEPT !.val = l.val \/ r.val], kws)
         ELSE ParseError
    ELSE l

parse_or(ts, kws) == parse_or_rest(parse_and(ts, kws), kws)

\* expr_parser.parse(text, kws): the value of the expression, or the
\* exception of a text that is no expression.
expr_parser_parse(text, kws) ==
    LET r == parse_or(text, kws) IN
    IF r.ok /\ r.rest = << >> THEN [exc |-> "none", value |-> r.val]
    ELSE [exc |-> "SyntaxError", value |-> FALSE]

\* conditional_eval, lines 914-919 (no caller here passes None for the
\* conditional): the value, or an Exception whose text is made of the tag,
\* the kind, the conditional, the origin and the parser's error.
conditional_eval(tag, kw, conditional, origin, kind) ==
    LET r == expr_parser_parse(conditional, kw) IN
    IF r.exc = "none" THEN [exc |-> "none", value |-> r.value, error |-> << >>]
    ELSE [exc |-> "Exception", value |-> FALSE,
          error |-> << [tag |-> tag, kind |-> kind, conditional |-> conditional,
                        origin |-> origin, e |-> r.exc] >>]

\* ------------------------------------------------------------- selection
\* rt.get('bsps', {}).keys(), in the order the dict gives them.
bsps_keys(rt, order) ==
    LET bsps == rt_get(rt, "bsps", Map(EmptyDict)).v IN
    SelectSeq(order, LAMBDA b : << b >> \in DOMAIN bsps)

\* _target_select_by_spec, lines 633-638: the keywords of the target.
select_kws(rt, bsps) ==
    kws_update_from_rt(item("bsp_count", Num(Len(bsps))), rt)

\* _target_select_by_spec, lines 643-646: the keywords of one BSP.
kws_bsp(kws, rt, bsp) ==
    kws_update_type_string(dict_update(kws, item("bsp", Str(<< bsp >>))),
                           rt[<< "bsps" >>].v[<< bsp >>], << >>)

\* _target_select_by_spec, lines 642-659: the loop over the BSPs, which
\* returns True on the first that matches; evals counts the evaluations.
RECURSIVE bsp_loop(_, _, _, _, _)
bsp_loop(kws, rt, spec, bsps, evals) ==
    IF bsps = << >>
    THEN [exc |-> "none", value |-> "None", evals |-> evals, error |-> << >>]
    ELSE LET r == conditional_eval("target selection", kws_bsp(kws, rt, Head(bsps)),
                                   spec, "cmdline", "specification")
         IN IF r.exc # "none"
            THEN [exc |-> r.exc, value |-> "None", evals |-> evals + 1,
                  error |-> r.error]
            ELSE IF r.value
            THEN [exc |-> "none", value |-> "True", evals |-> evals + 1,
                  error |-> << >>]
            ELSE bsp_loop(kws, rt, spec, Tail(bsps), evals + 1)

\* A test after the loop that goes on to the core keywords in every case.
no_bsps_or_no_match(bsps) == TRUE

\* _target_select_by_spec, line 660: if bsps == []
no_bsps(bsps) == bsps = << >>

\* _target_select_by_spec: True, False, or None when the loop over the
\* BSPs ends with no match; or the exception of conditional_eval.
_target_select_by_spec(rt, spec, order) ==
    LET bsps == bsps_keys(rt, order)
        kws == select_kws(rt, bsps)
        l == bsp_loop(kws, rt, spec, bsps, 0)
    IN IF l.exc # "none" \/ l.value = "True" THEN l
       ELSE IF no_bsps(bsps)
       THEN LET r == conditional_eval("target selection", kws, spec, "cmdline",
                                      "specification")
            IN [exc |-> r.exc,
                value |-> IF r.exc # "none" THEN "None"
                          ELSE IF r.value THEN "True" ELSE "False",
                evals |-> l.evals + 1, error |-> r.error]
       ELSE l

\* A kws_bsp that keeps what it holds.
dict_keep(d) == d

\* kws_bsp.clear(), line 643.
dict_clear(d) == EmptyDict

\* _target_select_by_spec, lines 628-638: the dicts the call holds, which
\* are the caller's _kws and rt and the new dicts kws (a copy of _kws, with
\* bsp_count and the keywords of rt) and kws_bsp.
select_dicts(rt, _kws, bsps) ==
    [_kws |-> _kws, rt |-> rt,
     kws |-> kws_update_from_rt(
                 dict_update(_kws, item("bsp_count", Num(Len(bsps)))), rt),
     kws_bsp |-> EmptyDict]

\* _target_select_by_spec, lines 642-659, on these dicts: each pass clears
\* kws_bsp, fills it from kws, the name of the BSP and the BSP's scalar
\* attributes, and evaluates the specification on it; seen lists what the
\* evaluations were given.
RECURSIVE select_loop(_, _, _, _)
select_loop(dicts, spec, bsps, seen) ==
    IF bsps = << >>
    THEN [exc |-> "none", value |-> "None", dicts |-> dicts, seen |-> seen]
    ELSE LET pass(filled) ==
                 LET r == conditional_eval("target selection", filled, spec, "cmdline",
                                           "specification")
                 IN IF r.exc # "none"
                    THEN [exc |-> r.exc, value |-> "None",
                          dicts |-> [dicts EXCEPT !.kws_bsp = filled],
                          seen |-> Append(seen, filled)]
                    ELSE IF r.value
                    THEN [exc |-> "none", value |-> "True",
                          dicts |-> [dicts EXCEPT !.kws_bsp = filled],
                          seen |-> Append(seen, filled)]
                    ELSE select_loop([dicts EXCEPT !.kws_bsp = filled], spec,
                                     Tail(bsps), Append(seen, filled))
         IN CHOOSE l \in
                { pass(filled) : filled \in
                    { kws_update_type_string(
                          dict_update(dict_update(dict_clear(dicts.kws_bsp), dicts.kws),
                                      item("bsp", Str(<< Head(bsps) >>))),
                          dicts.rt[<< "bsps" >>].v[<< Head(bsps) >>], << >>) } } : TRUE

\* _target_select_by_spec, lines 660-672, after the loop l on the dicts: the
\* core keywords are evaluated when there is no BSP.
select_end(dicts, spec, bsps, l) ==
    IF l.exc # "none" \/ l.value = "True" \/ ~no_bsps(bsps) THEN l
    ELSE LET r == conditional_eval("target selection", dicts.kws, spec, "cmdline",
                                   "specification")
         IN [exc |-> r.exc,
             value |-> IF r.exc # "none" THEN "None"
                       ELSE IF r.value THEN "True" ELSE "False",
             dicts |-> dicts, seen |-> << >>]

\* _target_select_by_spec(rt, spec, _kws): the result, and the dicts as the
\* call leaves them.
_target_select_by_spec_kws(rt, spec, _kws, order) ==
    CHOOSE r \in
        { select_end(dicts, spec, bsps_keys(rt, order), l) :
            << dicts, l >> \in
                { << d, select_loop(d, spec, bsps_keys(rt, order), << >>) >> :
                     d \in { select_dicts(rt, _kws, bsps_keys(rt, order)) } } } : TRUE

\* ------------------------------------------------------------- listing
\* An except clause that names Exception.
list_catches_any(exc) == TRUE

\* rest_target_list, line 759: except requests.exceptions.ConnectionError
list_catches(exc) == exc = "ConnectionError"

\* sep.join(strs)
RECURSIVE join(_, _)
join(strs, sep) ==
    IF strs = << >> THEN << >>
    ELSE IF Len(strs) = 1 THEN strs[1]
    ELSE strs[1] \o sep \o join(Tail(strs), sep)

\* rest_target_list, lines 734-742: the specification of the listing.
list_spec(args) ==
    LET s1 == IF args.all = FALSE
              THEN << << "(", "not", "disabled", ")" >> >> ELSE << >>
        s2 == IF args.target # << >>
              THEN << << "(" >> \o join(args.target, << ")", "or", "(" >>) \o << ")" >> >>
              ELSE << >>
    IN join(s1 \o s2, << "and" >>)

\* sorted(S): the strings of S in their order.
sorted(S) ==
    CHOOSE o \in Orders(S) :
        \A i, j \in DOMAIN o : i < j => str_le(o[i], o[j])

\* rt.pop('rtb')
rt_pop(rt, k) == [x \in (DOMAIN rt) \ { << k >> } |-> rt[x]]

\* rest_target_list, lines 754-756: what _target_select_by_spec gives for each rt
\* of the cache, once its 'rtb' is popped.
list_selections(cache, spec, order) ==
    [k \in DOMAIN cache |->
        _target_select_by_spec(rt_pop(cache[k], "rtb"), spec, order)]

\* rest_target_list, lines 752-760: the loop over the sorted cache.  Each rt
\* loses its 'rtb' (KeyError when it has none), which changes the rt of the
\* cache; l takes the fullids of the rts that are listed.  sel[k] is the
\* result of _target_select_by_spec on the rt of k.
RECURSIVE list_loop(_, _, _, _, _, _)
list_loop(cache, keys, spec, sel, l, evals) ==
    IF keys = << >>
    THEN [exc |-> "none", l |-> l, cache |-> cache, evals |-> evals, error |-> << >>]
    ELSE LET k == Head(keys) IN
         IF << "rtb" >> \notin DOMAIN cache[k]
         THEN [exc |-> "KeyError", l |-> l, cache |-> cache, evals |-> evals,
               error |-> << >>]
         ELSE LET popped == [cache EXCEPT ![k] = rt_pop(cache[k], "rtb")]
              IN IF spec = << >>
                 THEN list_loop(popped, Tail(keys), spec, sel, Append(l, k), evals)
                 ELSE IF sel[k].exc # "none" /\ ~list_catches(sel[k].exc)
                 THEN [exc |-> sel[k].exc, l |-> l, cache |-> popped,
                       evals |-> evals + sel[k].evals, error |-> sel[k].error]
                 ELSE list_loop(popped, Tail(keys), spec, sel,
                                IF sel[k].exc = "none" /\ sel[k].value = "True"
                                THEN Append(l, k) ELSE l,
                                evals + sel[k].evals)

\* The frame of a listing or of a call of a function: the registry and
\* the sessions stay.
ListFrame ==
    UNCHANGED << rest_target_brokers, cache_attr, pc, threads, merged, hist,
                 cookies, valid_session, lock, call, find, handled, state_file >>

\* rest_target_list, when the output is no terminal, on a valid cache.
rest_target_list(t, args, order) ==
    /\ Quiet(t)
    /\ cache_attr = "dict"
    /\ \E spec \in { list_spec(args) } :
       \E sel \in { list_selections(_rts_cache, spec, order) } :
       \E r \in { list_loop(_rts_cache, sorted(DOMAIN _rts_cache), spec, sel, << >>, 0) } :
          /\ _rts_cache' = r.cache
          /\ run' = [op |-> "rest_target_list", args |-> args, spec |-> spec,
                     order |-> order, cache |-> _rts_cache, outcome |-> r.exc, l |-> r.l,
                     evals |-> r.evals, error |-> r.error]
    /\ ListFrame

\* A call of _target_select_by_spec(rt, spec).
select_by_spec_call(t, rt, spec, order) ==
    /\ Quiet(t)
    /\ run' = [op |-> "_target_select_by_spec", rt |-> rt, spec |-> spec,
               order |-> order, r |-> _target_select_by_spec(rt, spec, order)]
    /\ UNCHANGED _rts_cache
    /\ ListFrame

\* A call of _target_select_by_spec(rt, spec, _kws).
select_by_spec_kws_call(t, rt, spec, _kws, order) ==
    /\ Quiet(t)
    /\ \E r \in { _target_select_by_spec_kws(rt, spec, _kws, order) } :
          run' = [op |-> "_target_select_by_spec_kws", rt |-> rt, spec |-> spec,
                  _kws |-> _kws, order |-> order, r |-> r]
    /\ UNCHANGED _rts_cache
    /\ ListFrame

\* A call of kws_update_from_rt(kws, rt) on an empty kws.
kws_update_from_rt_call(t, rt) ==
    /\ Quiet(t)
    /\ run' = [op |-> "kws_update_from_rt", rt |-> rt,
               kws |-> kws_update_from_rt(EmptyDict, rt)]
    /\ UNCHANGED _rts_cache
    /\ ListFrame

\* ------------------------------------------------------------- target lists
\* target_id = None, or a target id.
NoTargetId == << >>

\* rest_tb_target_list, lines 399-400: the rt is skipped.
tb_list_skips(all_targets, target_id, rt) ==
    /\ target_id # NoTargetId
    /\ << "disabled" >> \in DOMAIN rt /\ rt[<< "disabled" >>].t # "null"
    /\ all_targets # TRUE

\* rest_tb_target_list, lines 396-408, on the r['targets'] of the response:
\* the rts that are not skipped, each with its fullid and its rtb.
tb_target_list(aka, all_targets, target_id, targets) ==
    LET kept == SelectSeq(targets, LAMBDA rt : ~tb_list_skips(all_targets, target_id, rt))
    IN [i \in DOMAIN kept |->
           dict_of(<< kept[i],
                      item("fullid", Str(aka \o << "/" >> \o kept[i][<< "id" >>].v)),
                      item("rtb", Obj(aka)) >>)]

\* A call of rest_tb_target_list on a broker that holds the targets held
\* and answers the request: with all of them to GET targets/, with the one
\* of that id to GET targets/<target_id>.
rest_tb_target_list_call(t, all_targets, target_id, held) ==
    /\ Quiet(t)
    /\ target_id # NoTargetId =>
          \E i \in DOMAIN held : held[i][<< "id" >>].v = target_id[1]
    /\ LET targets == IF target_id = NoTargetId THEN held
                      ELSE SelectSeq(held, LAMBDA rt : rt[<< "id" >>].v = target_id[1])
       IN run' = [op |-> "rest_tb_target_list", all_targets |-> all_targets,
                  target_id |-> target_id, targets |-> targets,
                  value |-> tb_target_list(AkaList[1], all_targets, target_id, targets)]
    /\ UNCHANGED _rts_cache
    /\ ListFrame

\* ------------------------------------------------------------- error responses
GenericMessage == "no specific error text available"

\* request_response_maybe_raise: nothing on a status that is ok;
\* otherwise HTTPError with the status code and the message, which is
\* json['message'] or the generic one.  The test 'message' in json raises
\* TypeError on a JSON number; ValueError (no JSON) is the only exception
\* caught.
request_response_maybe_raise(response) ==
    IF response.status < 400
    THEN [exc |-> "none", status_code |-> 0, message |-> ""]
    ELSE IF response.body = "number"
    THEN [exc |-> "TypeError", status_code |-> 0, message |-> ""]
    ELSE [exc |-> "HTTPError", status_code |-> response.status,
          message |-> IF response.body = "object_message"
                      THEN response.message ELSE GenericMessage]

\* send_request, lines 336-344: the exception it leaves with, or none.
\* r.json() raises ValueError on a body that is no JSON, and rdata.get
\* AttributeError on JSON that is no object.
send_request_end(response, raw) ==
    LET e == request_response_maybe_raise(response) IN
    IF e.exc # "none" \/ raw THEN e
    ELSE [e EXCEPT !.exc =
             CASE response.body = "text" -> "ValueError"
               [] response.body \in { "number", "null" } -> "AttributeError"
               [] OTHER -> "none"]

\* A call of send_request that gets the response.
send_request_call(t, response, raw) ==
    /\ Quiet(t)
    /\ run' = [op |-> "send_request", response |-> response, raw |-> raw,
               r |-> send_request_end(response, raw)]
    /\ UNCHANGED _rts_cache
    /\ ListFrame

\* ------------------------------------------------------------- targets
\* The names of the BSPs, and the orders a dict can give them in.
BspNames == { "x86", "arm" }

BspOrders == Orders(BspNames)

\* What a broker can say of a target.  Each choice is a dict with the
\* attribute, or the empty dict when the target has none.
DisabledChoices == { EmptyDict, item("disabled", Str(<< "True" >>)) }

BspsChoices ==
    { EmptyDict,
      item("bsps", Map(item("x86", Map(item("board", Str(<< "foo" >>)))))),
      item("bsps",
           Map(dict_update(
                  item("x86", Map(item("zephyr_board", Str(<< "qemu_x86" >>)))),
                  item("arm", Map(item("zephyr_board", Str(<< "arduino_101" >>))))))) }

\* The rt of rest_tb_target_list for the target id of the broker aka: the
\* attributes the broker sent, and 'fullid' and 'rtb'.
Descriptor(aka, id, attrs) ==
    dict_of(<< item("id", Str(id)), attrs,
               item("fullid", Str(aka \o << "/" >> \o id)),
               item("rtb", Obj(aka)) >>)

Descriptors ==
    LET TypeChoices ==
            { EmptyDict, item("type", Null), item("type", Str(<< "qemu" >>)) }
        OwnerChoices == { EmptyDict, item("owner", Null) }
        InterconnectChoices ==
            { EmptyDict,
              item("interconnects", Map(item("nw0", Map(item("ipv4_addr", Null))))) }
    IN { Descriptor(AkaList[1], IdList[1], dict_of(<< ty, ow, bs, ic >>)) :
             ty \in TypeChoices, ow \in OwnerChoices,
             bs \in BspsChoices, ic \in InterconnectChoices }

\* Targets whose BSPs have different attributes, and one with no BSP.
BspDescriptors ==
    { Descriptor(AkaList[1], IdList[1], bs) :
         bs \in { EmptyDict,
                  item("bsps",
                       Map(dict_update(
                              item("x86", Map(dict_update(
                                      item("zephyr_board", Str(<< "qemu_x86" >>)),
                                      item("board", Str(<< "foo" >>))))),
                              item("arm", Map(item("zephyr_board",
                                                   Str(<< "arduino_101" >>))))))),
                  item("bsps",
                       Map(dict_update(
                              item("x86", Map(item("zephyr_board", Str(<< "qemu_x86" >>)))),
                              item("arm", Map(dict_update(
                                      item("zephyr_board", Str(<< "arduino_101" >>)),
                                      item("type", Str(<< "qemu" >>)))))))) } }

\* The _kws of a caller: none (or {}), or keywords that the call also sets.
CallerKws ==
    { EmptyDict,
      dict_update(item("bsp_count", Num(7)), item("bsp", Str(<< "x86" >>))),
      item("board", Str(<< "bar" >>)),
      item("zephyr_board", Str(<< "arduino_101" >>)) }

\* Specifications of the command line, the last one malformed.
SelectSpecs ==
    { << "zephyr_board", "==", "arduino_101" >>,
      << "type", "==", "qemu", "or", "bsp", "==", "x86" >>,
      << "not", "bsp" >>,
      << "zephyr_board", "==" >> }

\* What a broker holds: no target, t1, or t1 and t2, each disabled or not.
HeldTargets ==
    LET raw(id) == { dict_update(item("id", Str(id)), di) : di \in DisabledChoices }
    IN { << >> } \cup { << d >> : d \in raw(<< "t1" >>) }
         \cup { << d1, d2 >> : d1 \in raw(<< "t1" >>), d2 \in raw(<< "t2" >>) }

TargetIds == { NoTargetId, << << "t1" >> >>, << << "t2" >> >> }

\* The responses of a broker, by status and by body: a JSON object with a
\* 'message' or without, the JSON null, a JSON number, or text that is no
\* JSON.
ResponseBodies ==
    [status : Statuses, body : { "object", "null", "number", "text" }, message : { "" }]
      \cup [status : Statuses, body : { "object_message" }, message : { "denied" }]

\* Calls of the functions, on any input.
NextCalls ==
    \/ \E rt \in Descriptors, spec \in SelectSpecs, order \in BspOrders :
          select_by_spec_call(MainThread, rt, spec, order)
    \/ \E rt \in Descriptors : kws_update_from_rt_call(MainThread, rt)
    \/ \E all_targets \in BOOLEAN, target_id \in TargetIds, held \in HeldTargets :
          rest_tb_target_list_call(MainThread, all_targets, target_id, held)
    \/ \E response \in ResponseBodies, raw \in BOOLEAN :
          send_request_call(MainThread, response, raw)

SpecCalls == InitSess /\ [][NextCalls]_vars

\* Calls of _target_select_by_spec by callers that pass _kws.
NextSelect ==
    \E rt \in BspDescriptors, spec \in SelectSpecs \cup { << "board" >> },
       _kws \in CallerKws, order \in BspOrders :
       select_by_spec_kws_call(MainThread, rt, spec, _kws, order)

SpecSelect == InitSess /\ [][NextSelect]_vars

\* The targets of a listing: t1 and t2 of the broker a, disabled or not,
\* with BSPs or with none.
ListIds == << << "t1" >>, << "t2" >> >>

ListDescriptors(id) ==
    { Descriptor(AkaList[1], id, dict_of(<< di, bs >>)) :
          di \in DisabledChoices, bs \in BspsChoices }

ListCaches ==
    UNION { { [k \in { AkaList[1] \o << "/" >> \o ListIds[i] : i \in S } |->
                  rts[CHOOSE i \in S : k = AkaList[1] \o << "/" >> \o ListIds[i]]] :
                rts \in [S -> UNION { ListDescriptors(ListIds[i]) : i \in S }] } :
            S \in SUBSET (DOMAIN ListIds) }

\* args.all and args.target of the command line.
ListArgs ==
    [all : BOOLEAN,
     target : { << >>,
                << << "zephyr_board", "==", "arduino_101" >> >>,
                << << "bsp", "==", "x86" >> >>,
                << << "zephyr_board", "==", "arduino_101" >>,
                   << "bsp", "==", "x86" >> >>,
                << << "zephyr_board", "==" >> >> }]

\* One broker is registered and the cache holds what a refresh left.
InitList ==
    /\ rest_target_brokers =
          [u \in { UrlList[1] } |-> rest_target_broker_init(u, NoAka)]
    /\ cache_attr = "dict"
    /\ _rts_cache \in { c \in ListCaches :
                          \A k \in DOMAIN c : c[k][<< "fullid" >>].v = k }
    /\ pc = [t \in Threads |-> "idle"]
    /\ threads = [t \in Threads |-> NoThreads]
    /\ merged = [t \in Threads |-> {}]
    /\ flushed = FALSE
    /\ stale = [t \in Threads |-> {}]
    /\ cache_stale = {}
    /\ InitSessions

\* The command line lists the targets.
NextList ==
    \E args \in ListArgs, order \in BspOrders : rest_target_list(MainThread, args, order)

SpecList == InitList /\ [][NextList]_vars

\* ------------------------------------------------------------- rest_login
\* _credentials_get: the user and the password come from the command line
\* or the environment (or are asked for on a terminal), or from the
\* environment variables of the broker's aka; RuntimeError when neither
\* gives them.
_credentials_get(aka, args) ==
    IF args.general \/ aka \in args.aka THEN "none" ELSE "RuntimeError"

\* args and the environment of a login: where credentials come from.
LoginArgs ==
    [general : BOOLEAN,
     aka : SUBSET { rest_target_broker_init(u, NoAka).aka : u \in CmdUrls }]

\* The frame of a step of rest_login.
LoginFrame ==
    UNCHANGED << rest_target_brokers, cache_attr, _rts_cache, pc, threads, merged,
                 hist, cookies, valid_session, lock, find, state_file >>

\* rest_login, lines 534-540: the loop starts over
\* rest_target_brokers.itervalues(), which come in the order of the dict.
rest_login_begin(t, order, args) ==
    /\ Quiet(t)
    /\ run.op = "rest_login" => run.stage = "done"
    /\ { order[i] : i \in DOMAIN order } = DOMAIN rest_target_brokers
    /\ run' = [op |-> "rest_login", stage |-> "loop", order |-> order,
               args |-> args, i |-> 0, logged |-> FALSE,
               valid |-> { u \in DOMAIN rest_target_brokers : valid_session[u] = "True" },
               attempted |-> {}, accepted |-> {}, outcome |-> "none"]
    /\ call' = [call EXCEPT ![t] = NoCall]
    /\ UNCHANGED handled
    /\ LoginFrame

\* rest_login, lines 541-545 and 553-554, for the next rtb: logged when the
\* session is valid; otherwise _credentials_get, whose exception leaves
\* rest_login, and rtb.login.
rest_login_broker(t, r) ==
    /\ run.op = "rest_login"
    /\ run.stage = "loop"
    /\ run.i < Len(run.order)
    /\ LET u == run.order[run.i + 1] IN
       IF valid_session[u] = "True"
       THEN /\ run' = [run EXCEPT !.logged = TRUE, !.i = @ + 1]
            /\ UNCHANGED << call, handled >>
       ELSE IF _credentials_get(rest_target_brokers[u].aka, run.args) # "none"
       THEN /\ run' = [run EXCEPT !.stage = "done",
                                  !.outcome = _credentials_get(
                                                  rest_target_brokers[u].aka, run.args)]
            /\ UNCHANGED << call, handled >>
       ELSE /\ lock[u] = "free"
            /\ call' = [call EXCEPT ![t] = send_request_begin("login", u, r)]
            /\ handled' = [handled EXCEPT ![u] = dict_update(@, r.cookies)]
            /\ run' = [run EXCEPT !.stage = "login", !.attempted = @ \cup { u }]
    /\ LoginFrame

\* rest_login, lines 545-552: login returned True, or it returned False or
\* raised an Exception, which is logged.
rest_login_result(t) ==
    /\ run.op = "rest_login"
    /\ run.stage = "login"
    /\ call[t].stage = "done"
    /\ run' = [run EXCEPT !.stage = "loop", !.i = @ + 1,
                          !.logged = @ \/ call[t].outcome = "True",
                          !.accepted = IF call[t].outcome = "True"
                                       THEN @ \cup { call[t].url } ELSE @]
    /\ UNCHANGED << call, handled >>
    /\ LoginFrame

\* rest_login, lines 555-558: exit(1) when no rtb is logged in.
rest_login_end(t) ==
    /\ run.op = "rest_login"
    /\ run.stage = "loop"
    /\ run.i = Len(run.order)
    /\ run' = [run EXCEPT !.stage = "done",
                          !.outcome = IF run.logged THEN "None" ELSE "SystemExit"]
    /\ UNCHANGED << call, handled >>
    /\ LoginFrame

\* Two brokers are registered; each session is valid, not valid, or not
\* validated yet.
InitLogin ==
    /\ rest_target_brokers = [u \in CmdUrls |-> rest_target_broker_init(u, NoAka)]
    /\ cache_attr = "None"
    /\ _rts_cache = EmptyDict
    /\ pc = [t \in Threads |-> "idle"]
    /\ threads = [t \in Threads |-> NoThreads]
    /\ merged = [t \in Threads |-> {}]
    /\ flushed = FALSE
    /\ stale = [t \in Threads |-> {}]
    /\ cache_stale = {}
    /\ cookies = [u \in Urls |-> EmptyDict]
    /\ \E v \in [CmdUrls -> { "None", "True", "False" }] :
          valid_session = [u \in Urls |-> IF u \in CmdUrls THEN v[u] ELSE "None"]
    /\ lock = [u \in Urls |-> "free"]
    /\ call = [t \in Threads |-> NoCall]
    /\ find = [t \in Threads |-> NoFind]
    /\ handled = [u \in Urls |-> EmptyDict]
    /\ state_file = [n \in StateFileNames |-> NoFile]
    /\ run = NoRun

\* The responses to the logins: with one cookie set, or with no cookie.
LoginResponses ==
    { r \in HttpResponses :
          r.cookies \in { EmptyDict, [n \in { CookieNameList[1] } |-> "v1"] } }

\* The command line logs in.
NextLogin ==
    \/ \E order \in Orders(CmdUrls), args \in LoginArgs :
          rest_login_begin(MainThread, order, args)
    \/ \E r \in LoginResponses : rest_login_broker(MainThread, r)
    \/ rest_login_result(MainThread)
    \/ rest_login_end(MainThread)
    \/ RequestStep(MainThread)

SpecLogin == InitLogin /\ [][NextLogin]_vars

\* A state file that does not deserialize.
corrupt(f) == f.kind = "file" /\ pickle_load(f.bytes).exc # "none"

\* C21: constructing a session never fails because of its persisted state:
\* with a state file that is missing, corrupt or unreadable the constructor
\* completes, and with no cookies.
C21_ConstructorNeverFailsOnState ==
    (run.op = "__init__"
       /\ (run.file.kind \in { "absent", "denied" } \/ corrupt(run.file)))
    => (run.outcome = "none" /\ run.cookies = EmptyDict)

\* C22: the cookies of a session constructed right after a tb_state_save for
\* the same URL are exactly the cookies that were saved; a save of no
\* cookies leaves no state file, and the session constructed after it has
\* no cookies.
C22_StateRoundTrip ==
    /\ (run.op = "__init__" /\ run.saved # << >>)
          => /\ run.outcome = "none"
             /\ run.cookies = run.saved[1]
             /\ (run.saved[1] = EmptyDict => run.file.kind = "absent")
    /\ (run.op = "tb_state_save" /\ run.cookies = EmptyDict)
          => state_file[state_file_name(run.url)].kind = "absent"

\* A session was constructed after a save of cookies over the longer file
\* of an earlier run.
C22_Witness ==
    /\ run.op = "__init__"
    /\ run.saved # << >>
    /\ run.saved[1] # EmptyDict
    /\ Len(run.file.bytes) > Len(pickle_dump(run.saved[1]))

\* The value of the specification of a call on the keywords kws.
spec_holds(kws) == expr_parser_parse(run.spec, kws).value

\* C23: _target_select_by_spec matches a target with BSPs iff the
\* specification is true on the keywords of at least one BSP; a target with
\* no BSP is evaluated once, on the core keywords, and matches iff that
\* evaluation is true.
C23_SelectIffAnyBspMatches ==
    (run.op = "_target_select_by_spec" /\ run.r.exc = "none") =>
        LET bsps == bsps_keys(run.rt, run.order)
            kws == select_kws(run.rt, bsps)
        IN IF bsps # << >>
           THEN (run.r.value = "True")
                   <=> \E i \in DOMAIN bsps : spec_holds(kws_bsp(kws, run.rt, bsps[i]))
           ELSE /\ run.r.evals = 1
                /\ (run.r.value = "True") <=> spec_holds(kws)

\* The target with the BSPs x86 and arm was selected by a specification
\* that only arm satisfies, after the evaluation on x86.
C23_Witness ==
    /\ run.op = "_target_select_by_spec"
    /\ run.spec = << "zephyr_board", "==", "arduino_101" >>
    /\ Len(bsps_keys(run.rt, run.order)) = 2
    /\ run.order[1] = "x86"
    /\ run.r.value = "True"
    /\ run.r.evals = 2

\* A specification that is no expression ("" is no specification).
malformed(spec) ==
    spec # << >> /\ expr_parser_parse(spec, EmptyDict).exc # "none"

\* C24: a listing with a malformed specification ends with the exception of
\* the first evaluation, which carries the specification and its origin; no
\* target is listed, skipped or evaluated after it.
C24_MalformedSpecFailsListing ==
    (run.op = "rest_target_list" /\ malformed(run.spec)) =>
        /\ run.outcome = "none" => run.cache = EmptyDict
        /\ run.evals <= 1
        /\ run.evals = 1 =>
              /\ run.outcome = "Exception"
              /\ run.l = << >>
              /\ Len(run.error) = 1
              /\ run.error[1].conditional = run.spec
              /\ run.error[1].origin = "cmdline"

\* A listing of two targets ended with the exception of the evaluation on
\* the first.
C24_Witness ==
    /\ run.op = "rest_target_list"
    /\ malformed(run.spec)
    /\ Cardinality(DOMAIN run.cache) = 2
    /\ run.outcome = "Exception"
    /\ run.evals = 1

\* The targets a listing is to select: not disabled unless args.all, and
\* matching one of the specifications of args.target when there are any.
list_selects(k) ==
    /\ run.args.all \/ << "disabled" >> \notin DOMAIN run.cache[k]
    /\ \/ run.args.target = << >>
       \/ \E i \in DOMAIN run.args.target :
             _target_select_by_spec(rt_pop(run.cache[k], "rtb"), run.args.target[i],
                                    run.order).value = "True"

\* C25: a listing selects every target when args.all is set and no
\* specification is given, the targets with no 'disabled' otherwise, and with
\* specifications the targets that are not disabled (unless args.all) and
\* satisfy at least one of them.
C25_ListSelectsNotDisabledAndAnySpec ==
    (run.op = "rest_target_list" /\ run.outcome = "none") =>
        { run.l[i] : i \in DOMAIN run.l } = { k \in DOMAIN run.cache : list_selects(k) }

\* C26: the keywords a specification is evaluated on hold, for a target
\* with bsps.x86.board = "foo", the key bsps.x86.board with the value "foo".
C26_KeywordsFlattenNestedMaps ==
    (run.op = "_target_select_by_spec"
       /\ rt_get(run.rt, "bsps", Null)
             = Map(item("x86", Map(item("board", Str(<< "foo" >>))))))
    => LET bsps == bsps_keys(run.rt, run.order)
           kws == kws_bsp(select_kws(run.rt, bsps), run.rt, "x86")
           key == << "bsps", ".", "x86", ".", "board" >>
       IN key \in DOMAIN kws /\ kws[key] = Str(<< "foo" >>)

\* C27: kws_update_from_rt sets 'target' to the fullid without ':', '/'
\* and whitespace and 'type' to the type of the descriptor, "n/a" when it
\* has none, and every attribute that is null to "".
C27_TargetTypeAndNullKeywords ==
    run.op = "kws_update_from_rt" =>
        /\ run.kws[<< "target" >>]
              = Str(SelectSeq(run.rt[<< "fullid" >>].v, LAMBDA c : c \notin UnsafeChars))
        /\ << "type" >> \notin DOMAIN run.rt
              => run.kws[<< "type" >>] = Str(<< "n", "/", "a" >>)
        /\ \A k \in DOMAIN run.rt :
              /\ (k = << "type" >> /\ run.rt[k].t # "null") => run.kws[k] = run.rt[k]
              /\ run.rt[k].t = "null" => run.kws[k] = Str(<< >>)

\* C28: with all_targets false the list of rest_tb_target_list holds no
\* target that has 'disabled', when it lists a broker's targets and when it
\* lists one target_id.
C28_DisabledOnlyWithAllTargets ==
    (run.op = "rest_tb_target_list" /\ ~run.all_targets) =>
        \A i \in DOMAIN run.value : << "disabled" >> \notin DOMAIN run.value[i]

\* C29: send_request leaves with HTTPError on every response with an error
\* status, with the status code and the body's message (the generic one
\* when the body has none), and with no exception on a status that is ok.
C29_ErrorStatusRaisesHTTPError ==
    run.op = "send_request" =>
        IF run.response.status >= 400
        THEN /\ run.r.exc = "HTTPError"
             /\ run.r.status_code = run.response.status
             /\ run.r.message = IF run.response.body = "object_message"
                                THEN run.response.message ELSE GenericMessage
        ELSE run.r.exc = "none"

\* C30: rest_login completes iff a broker's session was valid or a broker
\* accepted the login; it attempts the login on every broker whose session
\* is not known as valid, whatever happens with another; and it ends with a
\* failure when no broker is logged in.
C30_LoginSucceedsIffOneBrokerLoggedIn ==
    (run.op = "rest_login" /\ run.stage = "done") =>
        /\ run.outcome = "None" <=> (run.valid \cup run.accepted) # {}
        /\ \A u \in DOMAIN rest_target_brokers : u \in run.valid \cup run.attempted

\* C31: distinct registered brokers never share persisted state: the state
\* file that tb_state_save of one session wrote is never the file the
\* constructor of a session with another URL loads.
C31_BrokersNeverShareState ==
    [][(/\ run.op = "tb_state_save" /\ run.outcome = "none"
        /\ run.cookies # EmptyDict
        /\ run'.op = "__init__" /\ run'.url # run.url)
          => state_file_name(run'.url) # state_file_name(run.url)]_vars

\* C32: rts_cache_flush is safe to run while other callers evaluate
\* rts_cache: a caller whose access returns gets a valid cache, and no merge
\* loop whose tasks all returned is ended by an exception.
C32_FlushIsSafeWithReaders ==
    [][\A t \in Threads :
          /\ (pc[t] \in { "return_hit", "return_empty", "return" } /\ pc'[t] = "idle")
                => cache_attr = "dict"
          /\ (pc[t] = "merge" /\ pc'[t] = "idle")
                => \E u \in DOMAIN threads[t] : threads[t][u].exc # "none"]_vars

\* C33: between two consecutive invalidations each broker is queried at most
\* once: no list call to a broker is issued for one caller's access when
\* the list call of another caller's access to that broker has returned and
\* no flush has come since.
C33_OneFanoutPerInvalidation ==
    [][\A t, o \in Threads, u \in Urls :
          ~(/\ t # o
            /\ pc[t] = "fanout" /\ u \in DOMAIN threads[t] /\ ~threads[t][u].done
            /\ u \in DOMAIN threads'[t] /\ threads'[t][u].done
            /\ pc[o] \in { "fanout", "merge", "return" }
            /\ u \in DOMAIN threads[o] /\ threads[o][u].done
            /\ stale[o] = {})]_vars

\* The step in which rest_tb_target_update is called.
updates == run' # run /\ run'.op = "rest_tb_target_update"

\* C34: rest_tb_target_update on a valid cache replaces, in one step, exactly
\* the entry keyed aka/target_id with the descriptor it fetched and returns
\* it; the other entries and the validity of the cache stay; a reader gets
\* a whole entry of the cache; and when the broker returns no target it
\* raises ValueError and the cache stays as it was.
C34_UpdateReplacesOneEntry ==
    [][/\ (updates /\ cache_attr = "dict") =>
             /\ cache_attr' = "dict"
             /\ run'.resp = [kind |-> "targets", ids |-> << >>] =>
                   run'.outcome = "ValueError"
             /\ (run'.resp.kind = "targets" /\ run'.resp.ids # << >>) =>
                   run'.outcome = "none"
             /\ run'.outcome # "none" => _rts_cache' = _rts_cache
             /\ run'.outcome = "none" =>
                   /\ DOMAIN _rts_cache' = DOMAIN _rts_cache \cup { run'.fullid }
                   /\ \A k \in DOMAIN _rts_cache :
                         k # run'.fullid => _rts_cache'[k] = _rts_cache[k]
                   /\ run'.value = << _rts_cache'[run'.fullid] >>
                   /\ run'.value[1].rtb = rest_target_brokers[run'.url]
                   /\ run'.value[1].fullid = run'.fullid
                   /\ run'.value[1].id = run'.resp.ids[1]
       /\ (find'[Reader] # find[Reader] /\ find'[Reader].stage = "found") =>
             \E k \in DOMAIN _rts_cache : find'[Reader].rt = << _rts_cache[k] >>]_vars

\* An update has replaced the entry of its key, which the list call of
\* another session with the same alias had returned, with the descriptor it
\* fetched.
C34_Witness ==
    /\ run.op = "rest_tb_target_update"
    /\ run.outcome = "none"
    /\ cache_attr = "dict"
    /\ run.fullid \in DOMAIN run.cache
    /\ run.cache[run.fullid] # run.value[1]
    /\ run.fullid \in DOMAIN _rts_cache
    /\ _rts_cache[run.fullid] = run.value[1]

\* C35: listing does not modify the cache: after rest_target_list every
\* cached descriptor is as it was before the call and still carries its
\* owning broker session.
C35_ListingLeavesCache ==
    run.op = "rest_target_list" =>
        /\ _rts_cache = run.cache
        /\ \A k \in DOMAIN _rts_cache : << "rtb" >> \in DOMAIN _rts_cache[k]

\* C36: after rest_logout the broker session has an empty cookie set, also
\* when its session was valid and the logout request was sent, whatever
\* cookies the response to it carries.
C36_LogoutLeavesNoCookies ==
    \A t \in Threads :
        (call[t].op \in { "logout", "rest_logout" } /\ call[t].stage = "done") =>
            cookies[call[t].url] = EmptyDict

\* C37: a refresh always terminates: when every list call returns or fails,
\* an access that found the cache invalid and fanned out comes to its
\* return, with the cache valid.
C37_RefreshTerminates ==
    (pc[MainThread] = "fanout") ~> (pc[MainThread] = "return" /\ cache_attr = "dict")

\* C38: in every valid cache each key k maps to a descriptor d with
\* d['fullid'] = k = d['rtb'].aka + '/' + d['id'], where d['rtb'] is a
\* registered broker session; after any sequence of refreshes, invalidations
\* and target updates.
C38_CacheKeysAreFullids ==
    cache_attr = "dict" =>
        \A k \in DOMAIN _rts_cache :
            LET d == _rts_cache[k] IN
            /\ d.fullid = k
            /\ k = d.rtb.aka \o << "/" >> \o d.id
            /\ d.rtb.url \in DOMAIN rest_target_brokers
            /\ rest_target_brokers[d.rtb.url] = d.rtb

\* An update has added to a valid cache the target of a broker of which the
\* refresh had found none, next to the entry of another broker.
C38_Witness ==
    /\ cache_attr = "dict"
    /\ pc[MainThread] = "idle"
    /\ run.op = "rest_tb_target_update"
    /\ run.outcome = "none"
    /\ run.fullid \notin DOMAIN run.cache
    /\ DOMAIN run.cache # {}
    /\ _rts_cache = cache_update(run.cache, [k \in { run.fullid } |-> run.value[1]])

\* The step in which the validate_session of caller t on session u, which
\* performed a check, ends.
validated(t, u) ==
    /\ call[t].op = "validate_session" /\ call[t].url = u
    /\ call[t].stage = "end" /\ call'[t].stage = "done"

\* C39: the session-valid flag is unknown (None) until a validate_session
\* call that performed a check ends, is valid or invalid after it and never
\* unknown again; a check that fails with a network error or an error status
\* records invalid; and no step of login, logout or tb_state_trash changes
\* the flag.
C39_ValidFlagIsMonotone ==
    [][\A u \in Urls :
          /\ valid_session[u] # "None" => valid_session'[u] # "None"
          /\ valid_session'[u] # valid_session[u] => \E t \in Threads : validated(t, u)
          /\ \A t \in Threads :
                validated(t, u) =>
                   /\ valid_session'[u] \in { "True", "False" }
                   /\ http_kind(call[t].resp) \in { "ConnectionError", "Timeout", "HTTPError" }
                         => valid_session'[u] = "False"]_vars

\* A validate_session whose request met a connection error has ended with
\* that exception, and the flag, unknown before, is invalid.
C39_Witness ==
    \E t \in Threads :
        /\ call[t].op = "validate_session"
        /\ call[t].stage = "done"
        /\ call[t].resp.kind = "ConnectionError"
        /\ call[t].outcome = "ConnectionError"
        /\ ~call[t].validate
        /\ valid_session[call[t].url] = "False"

\* A call of _target_select_by_spec with the caller's _kws has ended.
selected == run.op = "_target_select_by_spec_kws"

\* C40: _target_select_by_spec leaves the caller's _kws and rt as they
\* were; bsp_count is the number of BSPs of rt; the keywords each BSP is
\* evaluated on are the core keywords, 'bsp' and that BSP's own attributes,
\* with nothing of a BSP evaluated before it; and the result is the same
\* in every order of the BSPs.
C40_SelectIsolatesEachBsp ==
    selected =>
        LET bsps == bsps_keys(run.rt, run.order)
            r == run.r
            own(i) == DOMAIN run.rt[<< "bsps" >>].v[<< bsps[i] >>].v
        IN /\ r.dicts._kws = run._kws
           /\ r.dicts.rt = run.rt
           /\ r.dicts.kws[<< "bsp_count" >>]
                 = Num(Cardinality(DOMAIN rt_get(run.rt, "bsps", Map(EmptyDict)).v))
           /\ \A i \in DOMAIN r.seen :
                 /\ r.seen[i] = kws_bsp(r.dicts.kws, run.rt, bsps[i])
                 /\ DOMAIN r.seen[i] \subseteq DOMAIN r.dicts.kws \cup { << "bsp" >> } \cup own(i)
                 /\ \A key \in DOMAIN r.seen[i] \ (own(i) \cup { << "bsp" >> }) :
                       r.seen[i][key] = r.dicts.kws[key]
           /\ \A o \in BspOrders :
                 LET q == _target_select_by_spec_kws(run.rt, run.spec, run._kws, o)
                 IN q.exc = r.exc /\ q.value = r.value

\* A target whose BSP x86 has a 'board' and whose BSP arm has none was
\* evaluated on x86 and then on arm, for a caller whose _kws is not empty,
\* and the keywords of arm hold no 'board'.
C40_Witness ==
    /\ selected
    /\ run._kws # EmptyDict
    /\ Len(run.r.seen) = 2
    /\ run.order[1] = "x86"
    /\ << "board" >> \in DOMAIN run.r.seen[1]
    /\ << "board" >> \notin DOMAIN run.r.seen[2]
    /\ run.r.value = "True"

====
